---------------------------- MODULE Spec2Model ----------------------------
(***************************************************************************)
(* Model of the native super-resolution session of mihon_img_upscale:      *)
(* the JNI entry points of waifu2x_jni.cpp (init*, process*, destroy,      *)
(* updatePerformanceConfig, initAnime4K, processAnime4K, getProgress,      *)
(* setUiBusy) called from several Java threads, and the tiled executor     *)
(* Waifu2x::process of waifu2x.cpp with its asynchronous write-back tasks. *)
(***************************************************************************)
EXTENDS Integers, Sequences, FiniteSets, TLC

(***************************************************************************)
(* Bounds of the model                                                     *)
(***************************************************************************)
\* caller threads of the concurrent specification
NThreads == 3
\* JNI calls made in one behaviour of Spec and of SpecOverlap
MaxCalls == 3
MaxCallsOverlap == 4
\* tiles per row / per column of the images of the concurrent specification
MaxTilesX == 2
MaxTilesY == 1
\* SpecSingle: JNI calls, tiles per side of the largest image, and write-back
\* tasks that may be unfinished when the next one is started
MaxCallsSingle == 3
MaxGridSingle == 10
MaxInFlight == 2
\* SpecChain: shaders of the longest chain
MaxPasses == 3
\* SpecProgress: nativeGetProgress calls in one behaviour
MaxCallsProgress == 2
\* SpecInit: init* calls in one behaviour
MaxCallsInit == 2
\* SpecColor: the sides of the images whose colourful pixels are counted
ColorSideA == 10
ColorSideB == 20
\* SpecTiles: JNI calls, the side of an image that is not a multiple of the
\* tile size, and the tile size set through updatePerformanceConfig
MaxCallsTiles == 4
OddSide == 100
SmallTile == 64

(***************************************************************************)
(* Program constants                                                       *)
(***************************************************************************)
\* waifu2x.cpp:28  tilesize = 128
DefaultTileSize == 128
\* waifu2x.cpp:29  prepadding = 18
DefaultPrepadding == 18
\* waifu2x.cpp:254  while (pipeline.size() >= 32)
PipelineDepth == 32
\* waifu2x.cpp:352  (xtiles * ytiles - 5)
NearEndTiles == 5

Threads == 1..NThreads

VARIABLES
    pc,              \* position of each caller thread inside its JNI call
    g_waifu2x,       \* the global model pointer: 0 is nullptr, else an object id
    modelAlive,      \* whether the object g_waifu2x points to is still allocated
    model,           \* the fields of the object g_waifu2x points to
    nextModel,       \* number of objects allocated so far by new Waifu2x
    g_anime4k,       \* the global shader-chain pointer is non-null
    g_lock,          \* owner of the mutex g_lock, 0 when free
    g_progress,      \* std::atomic<int> g_progress
    g_current_id,    \* std::atomic<int> g_current_id
    g_ui_busy,       \* std::atomic<int> g_ui_busy
    g_abort_processing, \* std::atomic<bool> g_abort_processing
    req,             \* locals of the call each thread is in (or last made)
    pipeline,        \* per request: the deque of futures, as tile indices
    running,         \* per request: tiles whose write-back task has not finished
    calls,           \* number of JNI calls made so far
    fault            \* "none", or the fatal signal that killed the process
                     \* (every action needs fault = "none": no thread runs on)

vars == << pc, g_waifu2x, modelAlive, model, nextModel, g_anime4k, g_lock,
           g_progress, g_current_id, g_ui_busy, g_abort_processing, req,
           pipeline, running, calls, fault >>

globals == << g_waifu2x, modelAlive, model, nextModel, g_anime4k, g_lock,
              g_progress, g_current_id, g_ui_busy, g_abort_processing >>

(***************************************************************************)
(* The model object                                                        *)
(***************************************************************************)
\* Waifu2x::Waifu2x and the member initialisers of waifu2x.h
Waifu2xCtor ==
    [ noise |-> 0, scale |-> 2, tilesize |-> DefaultTileSize,
      prepadding |-> DefaultPrepadding,
      progress_ptr |-> "null", should_abort_ptr |-> "null",
      tile_sleep_ms |-> 0, disable_grayscale_check |-> FALSE,
      net |-> "empty", param_file |-> << >>, bin_file |-> << >> ]
\* net is what Waifu2x::load left in the network; param_file and bin_file are
\* the two paths load was called with, without the model directory, as the
\* sequence of their pieces (numbers are the arguments of std::to_string)

\* locals of a call; kept after the call returns so that its result can be read
NoReq ==
    [ op |-> "none", id |-> 0, w |-> 0, h |-> 0, this |-> 0, xtiles |-> 0,
      ytiles |-> 0, idx |-> 0, ret |-> -1, status |-> "none",
      result |-> "none", inferences |-> 0, lastStore |-> -1, sleeps |-> 0,
      signalled |-> "", progress |-> -1, unlocks |-> 0, args |-> << >>,
      tilesize |-> 0, target_w |-> 0, target_h |-> 0, scale |-> 0,
      prepadding |-> 0, out_tile |-> [w |-> 0, h |-> 0], captured |-> {},
      out |-> {}, skipped |-> {}, color_pixel_count |-> 0,
      is_grayscale |-> FALSE, pixel |-> << >>,
      packed |-> [hi |-> 0, lo |-> 0], passes |-> << >>, out_w |-> -1,
      out_h |-> -1, outBitmap |-> [w |-> -1, h |-> -1] ]
\* history fields of a request: inferences counts its tile inferences,
\* lastStore is the last value it stored to progress (-1: none yet), sleeps
\* counts its thermal sleeps, signalled is where it was when an init* first
\* set g_abort_processing while it held the lock ("": never), unlocks counts
\* the times its unique_lock released the mutex.
\* locals of Waifu2x::process: tilesize is TILE_SIZE_X / TILE_SIZE_Y, target_w
\* and target_h the output size, out_tile the size of the last inferred tile's
\* output, captured the out_tile each started task holds (by tile index);
\* scale and prepadding are the members of *this as the request entered;
\* out is the caller's output buffer as the set of rectangles written so far,
\* skipped the tiles whose inference gave an empty or short-channel out_tile;
\* color_pixel_count and is_grayscale are the locals of the grayscale
\* detection, pixel the four bytes one write-back task puts at dst_idx,
\* packed the jlong nativeGetProgress returns, as its two 32-bit words;
\* passes is the pass list of the shader chain a call works on, out_w and
\* out_h what Anime4K::process reports (-1: not assigned), outBitmap the
\* size of the bitmap nativeProcessAnime4K creates for the result

\* what stays readable of a call once it has returned
Returned(r, result) ==
    [NoReq EXCEPT !.op = r.op, !.status = r.status, !.result = result,
                  !.unlocks = r.unlocks]

Init ==
    /\ pc = [t \in Threads |-> "idle"]
    /\ g_waifu2x = 0
    /\ modelAlive = FALSE
    /\ model = Waifu2xCtor
    /\ nextModel = 0
    /\ g_anime4k = FALSE
    /\ g_lock = 0
    /\ g_progress = 0
    /\ g_current_id = -1
    /\ g_ui_busy = 0
    /\ g_abort_processing = FALSE
    /\ req = [t \in Threads |-> NoReq]
    /\ pipeline = [t \in Threads |-> << >>]
    /\ running = [t \in Threads |-> {}]
    /\ calls = 0
    /\ fault = "none"

(***************************************************************************)
(* The mutex g_lock                                                        *)
(***************************************************************************)
\* std::mutex::lock can return only when no thread owns the mutex
\* variant: a mutex that admits a second holder
LockFreeAlways == TRUE

LockFree == g_lock = 0

\* the scope exit of a lock_guard / unique_lock: unlock if still owned
\* variant: the mutex is unlocked whoever owns it
ScopeExitAlways(t) == 0

ScopeExit(t) == IF g_lock = t THEN 0 ELSE g_lock


(***************************************************************************)
(* Tile grid and progress arithmetic of Waifu2x::process                   *)
(***************************************************************************)
\* waifu2x.cpp:192-193  (w + TILE_SIZE_X - 1) / TILE_SIZE_X
TileCount(n, tilesize) == (n + tilesize - 1) \div tilesize

TotalTiles(r) == r.xtiles * r.ytiles

\* waifu2x.cpp:201-205  origin and size of tile idx of a w x h image
TileX(idx, xtiles, tilesize) == (idx % xtiles) * tilesize
TileY(idx, xtiles, tilesize) == (idx \div xtiles) * tilesize
TileW(idx, xtiles, tilesize, w) ==
    LET rest == w - TileX(idx, xtiles, tilesize)
    IN  IF tilesize < rest THEN tilesize ELSE rest
TileH(idx, xtiles, tilesize, h) ==
    LET rest == h - TileY(idx, xtiles, tilesize)
    IN  IF tilesize < rest THEN tilesize ELSE rest

\* waifu2x.cpp:233-241  the size of out_tile after ex.extract, by what the
\* network gives back for a tile of w_tile x h_tile: the padded tile scaled
\* ("ok"), the tile scaled without its padding ("unpadded"), or less ("short")
OutTile(o, w_tile, h_tile, scale, prepadding) ==
    CASE o = "ok" -> [w |-> (w_tile + 2 * prepadding) * scale,
                      h |-> (h_tile + 2 * prepadding) * scale]
      [] o = "unpadded" -> [w |-> w_tile * scale, h |-> h_tile * scale]
      [] OTHER -> [w |-> (w_tile * scale) \div 2, h |-> (h_tile * scale) \div 2]

\* waifu2x.cpp:263-336 without the clamp of copy_w to the source width at
\* lines 307-308 (variant of WriteRect)
WriteRectNoSourceClamp(idx, x, y, w_tile, h_tile, target_w, target_h, ot, scale, prepadding) ==
    LET out_x == x * scale
        out_y == y * scale
        out_w_tile == w_tile * scale
        out_h_tile == h_tile * scale
        out_pad == prepadding * scale
        src == IF ot.w < out_w_tile + 2 * out_pad
                  \/ ot.h < out_h_tile + 2 * out_pad
               THEN 0 ELSE out_pad
        byDst == IF target_h - out_y < out_h_tile THEN target_h - out_y
                 ELSE out_h_tile
        rows == IF ot.h - src < byDst THEN ot.h - src ELSE byDst
        cw1 == IF out_x + out_w_tile > target_w THEN target_w - out_x
               ELSE out_w_tile
    IN  [ tile |-> idx, x |-> out_x, y |-> out_y,
          cw |-> IF rows > 0 /\ cw1 > 0 THEN cw1 ELSE 0,
          rows |-> IF rows > 0 /\ cw1 > 0 THEN rows ELSE 0,
          src |-> src, scale |-> scale, prepadding |-> prepadding ]

\* waifu2x.cpp:263-336  the rectangle of the output one write-back task
\* writes: x, y, w_tile, h_tile, target_w, target_h and the out_tile size ot
\* are captured by value, scale and prepadding are read when the task runs.
\* cw is copy_w, rows the number of rows written before a break, src the
\* offset of the first pixel read in out_tile (src_offset_x = src_offset_y);
\* the scale and prepadding the task read are kept with the rectangle
WriteRect(idx, x, y, w_tile, h_tile, target_w, target_h, ot, scale, prepadding) ==
    LET out_x == x * scale
        out_y == y * scale
        out_w_tile == w_tile * scale
        out_h_tile == h_tile * scale
        out_pad == prepadding * scale
        src == IF ot.w < out_w_tile + 2 * out_pad
                  \/ ot.h < out_h_tile + 2 * out_pad
               THEN 0 ELSE out_pad
        byDst == IF target_h - out_y < out_h_tile THEN target_h - out_y
                 ELSE out_h_tile
        rows == IF ot.h - src < byDst THEN ot.h - src ELSE byDst
        cw1 == IF out_x + out_w_tile > target_w THEN target_w - out_x
               ELSE out_w_tile
        cw2 == IF src + cw1 > ot.w THEN ot.w - src ELSE cw1
    IN  [ tile |-> idx, x |-> out_x, y |-> out_y,
          cw |-> IF rows > 0 /\ cw2 > 0 THEN cw2 ELSE 0,
          rows |-> IF rows > 0 /\ cw2 > 0 THEN rows ELSE 0,
          src |-> src, scale |-> scale, prepadding |-> prepadding ]

\* waifu2x.cpp:245-246  the value stored right after a tile's inference
\* variant: the interim value offset by one more
InterimProgressPlusTwo(idx, total) == (idx * 99) \div total + 2

InterimProgress(idx, total) == (idx * 99) \div total + 1

\* waifu2x.cpp:340  the value a write-back task stores when it has finished
FinalProgress(idx, total) == ((idx + 1) * 99) \div total

\* waifu2x.cpp:352  is_near_end
IsNearEnd(idx, total) == idx > total - NearEndTiles

\* waifu2x.cpp:353  the thermal sleep is taken after this tile
SleepsAfter(idx, total, tile_sleep_ms) ==
    tile_sleep_ms > 0 /\ ~IsNearEnd(idx, total)

\* the object a request runs on (its this pointer) is still allocated
ThisAlive(t) == req[t].this = g_waifu2x /\ modelAlive

\* progress_ptr->store(p) made by request t
StoreProgress(t, p) ==
    /\ g_progress' = p
    /\ req' = [req EXCEPT ![t].lastStore = p]

(***************************************************************************)
(* nativeProcess / nativeProcessRealCugan  (waifu2x_jni.cpp:125-214, 387)  *)
(***************************************************************************)
\* a caller enters nativeProcess with a bitmap of w x h pixels and a fresh id
CallProcess(t, maxCalls, widths, heights) ==
    /\ fault = "none"
    /\ pc[t] = "idle"
    /\ calls < maxCalls
    /\ \E w \in widths, h \in heights :
         req' = [req EXCEPT ![t] =
                   [NoReq EXCEPT !.op = "process", !.id = calls + 1,
                                 !.w = w, !.h = h]]
    /\ pc' = [pc EXCEPT ![t] = "p_lock"]
    /\ calls' = calls + 1
    /\ pipeline' = [pipeline EXCEPT ![t] = << >>]
    /\ running' = [running EXCEPT ![t] = {}]
    /\ UNCHANGED << globals, fault >>

\* waifu2x_jni.cpp:136-190  the lock is taken and the id published under it;
\* then the early returns: no model, bitmap not readable as RGBA_8888, output
\* bitmap not created or not locked
\* variant: the request goes on without waiting for the mutex
P_AcquireNoLock(t) ==
    /\ fault = "none"
    /\ pc[t] = "p_lock"
    /\ g_current_id' = req[t].id
    /\ \E bitmapOk \in BOOLEAN, outOk \in BOOLEAN :
         IF g_waifu2x = 0 \/ ~bitmapOk \/ ~outOk
         THEN /\ req' = [req EXCEPT ![t] = Returned(
                   [req[t] EXCEPT !.unlocks = 1, !.status =
                      IF g_waifu2x = 0 THEN "NotInitialized"
                      ELSE IF ~bitmapOk THEN "BadBitmap" ELSE "NoOutput"],
                   "input")]
              /\ g_lock' = 0
              /\ pc' = [pc EXCEPT ![t] = "idle"]
         ELSE /\ req' = req
              /\ g_lock' = t
              /\ pc' = [pc EXCEPT ![t] = "p_setptrs"]
    /\ UNCHANGED << g_waifu2x, modelAlive, model, nextModel, g_anime4k,
                    g_progress, g_ui_busy, g_abort_processing, pipeline,
                    running, calls, fault >>

P_Acquire(t) ==
    /\ fault = "none"
    /\ pc[t] = "p_lock"
    /\ LockFree
    /\ g_current_id' = req[t].id
    /\ \E bitmapOk \in BOOLEAN, outOk \in BOOLEAN :
         IF g_waifu2x = 0 \/ ~bitmapOk \/ ~outOk
         THEN /\ req' = [req EXCEPT ![t] = Returned(
                   [req[t] EXCEPT !.unlocks = 1, !.status =
                      IF g_waifu2x = 0 THEN "NotInitialized"
                      ELSE IF ~bitmapOk THEN "BadBitmap" ELSE "NoOutput"],
                   "input")]
              /\ g_lock' = 0
              /\ pc' = [pc EXCEPT ![t] = "idle"]
         ELSE /\ req' = req
              /\ g_lock' = t
              /\ pc' = [pc EXCEPT ![t] = "p_setptrs"]
    /\ UNCHANGED << g_waifu2x, modelAlive, model, nextModel, g_anime4k,
                    g_progress, g_ui_busy, g_abort_processing, pipeline,
                    running, calls, fault >>

\* waifu2x_jni.cpp:192-197 and waifu2x.cpp:106-197: the two member pointers are
\* set, process is entered on the current object, alpha is scaled (through
\* bicubic_2x, which load leaves null when it fails) and the grid is computed
P_SetPtrs(t) ==
    /\ fault = "none"
    /\ pc[t] = "p_setptrs"
    /\ model' = [model EXCEPT !.progress_ptr = "g_progress",
                              !.should_abort_ptr = "g_abort_processing"]
    /\ IF model.scale = 2 /\ model.net # "ok"
       THEN /\ fault' = "null_deref"
            /\ UNCHANGED << pc, req >>
       ELSE /\ fault' = fault
            /\ req' = [req EXCEPT
                 ![t].this = g_waifu2x,
                 ![t].tilesize = model.tilesize,
                 ![t].target_w = req[t].w * model.scale,
                 ![t].target_h = req[t].h * model.scale,
                 ![t].scale = model.scale,
                 ![t].prepadding = model.prepadding,
                 ![t].xtiles = TileCount(req[t].w, model.tilesize),
                 ![t].ytiles = TileCount(req[t].h, model.tilesize),
                 ![t].idx = 0]
            /\ pc' = [pc EXCEPT ![t] = "p_infer"]
    /\ UNCHANGED << g_waifu2x, modelAlive, nextModel, g_anime4k, g_lock,
                    g_progress, g_current_id, g_ui_busy, g_abort_processing,
                    pipeline, running, calls >>

\* the loop headers of waifu2x.cpp:199-200: the next tile, or the loop's end
\* variant: the loop ends one tile early
NextTileEarly(t, r) ==
    IF r.idx + 2 >= TotalTiles(r)
    THEN /\ req' = [req EXCEPT ![t] = r]
         /\ pc' = [pc EXCEPT ![t] = "p_unlock"]
    ELSE /\ req' = [req EXCEPT ![t] = [r EXCEPT !.idx = r.idx + 1]]
         /\ pc' = [pc EXCEPT ![t] = "p_infer"]

\* variant: the loop steps over every other tile
NextTileSkip(t, r) ==
    IF r.idx + 2 >= TotalTiles(r)
    THEN /\ req' = [req EXCEPT ![t] = r]
         /\ pc' = [pc EXCEPT ![t] = "p_unlock"]
    ELSE /\ req' = [req EXCEPT ![t] = [r EXCEPT !.idx = r.idx + 2]]
         /\ pc' = [pc EXCEPT ![t] = "p_infer"]

NextTile(t, r) ==
    IF r.idx + 1 >= TotalTiles(r)
    THEN /\ req' = [req EXCEPT ![t] = r]
         /\ pc' = [pc EXCEPT ![t] = "p_unlock"]
    ELSE /\ req' = [req EXCEPT ![t] = [r EXCEPT !.idx = r.idx + 1]]
         /\ pc' = [pc EXCEPT ![t] = "p_infer"]

\* waifu2x.cpp:201-241  extract the tile and run inference; a net without
\* inputs returns -1, an empty or short output skips the rest of the iteration
P_Infer(t, outcomes) ==
    /\ fault = "none"
    /\ pc[t] = "p_infer"
    /\ IF model.net = "no_param"
       THEN /\ req' = [req EXCEPT ![t].status = "BackendFailure"]
            /\ pc' = [pc EXCEPT ![t] = "p_unwind"]
       ELSE \E o \in outcomes :
              LET r == [req[t] EXCEPT
                         !.inferences = req[t].inferences + 1,
                         !.skipped = IF o = "empty"
                                     THEN req[t].skipped \cup {req[t].idx}
                                     ELSE req[t].skipped,
                         !.out_tile =
                            IF o = "empty" THEN [w |-> 0, h |-> 0]
                            ELSE OutTile(o,
                                   TileW(req[t].idx, req[t].xtiles,
                                         req[t].tilesize, req[t].w),
                                   TileH(req[t].idx, req[t].xtiles,
                                         req[t].tilesize, req[t].h),
                                   model.scale, model.prepadding)]
              IN  IF o = "empty"
                  THEN NextTile(t, r)
                  ELSE /\ req' = [req EXCEPT ![t] = r]
                       /\ pc' = [pc EXCEPT ![t] = "p_interim"]
    /\ UNCHANGED << globals, pipeline, running, calls, fault >>

\* waifu2x.cpp:243-248  the interim progress store
P_Interim(t) ==
    /\ fault = "none"
    /\ pc[t] = "p_interim"
    /\ StoreProgress(t, InterimProgress(req[t].idx, TotalTiles(req[t])))
    /\ pc' = [pc EXCEPT ![t] = "p_push"]
    /\ UNCHANGED << g_waifu2x, modelAlive, model, nextModel, g_anime4k, g_lock,
                    g_current_id, g_ui_busy, g_abort_processing, pipeline,
                    running, calls, fault >>

\* waifu2x.cpp:254-343  wait for and pop the oldest future when the deque holds
\* 32, then start the tile's write-back task and push its future
\* variant: the oldest future is popped without waiting for it
P_PushNoWait(t, inFlight) ==
    /\ fault = "none"
    /\ pc[t] = "p_push"
    /\ Cardinality(running[t]) < inFlight
    /\ IF Len(pipeline[t]) >= PipelineDepth
       THEN pipeline' = [pipeline EXCEPT
                 ![t] = Append(Tail(pipeline[t]), req[t].idx)]
       ELSE pipeline' = [pipeline EXCEPT ![t] = Append(pipeline[t], req[t].idx)]
    /\ running' = [running EXCEPT ![t] = running[t] \cup {req[t].idx}]
    /\ req' = [req EXCEPT ![t].captured = req[t].captured \cup
                 {[tile |-> req[t].idx, ot |-> req[t].out_tile]}]
    /\ pc' = [pc EXCEPT ![t] = "p_abort"]
    /\ UNCHANGED << globals, calls, fault >>

P_Push(t, inFlight) ==
    /\ fault = "none"
    /\ pc[t] = "p_push"
    /\ Cardinality(running[t]) < inFlight
    /\ IF Len(pipeline[t]) >= PipelineDepth
       THEN /\ Head(pipeline[t]) \notin running[t]
            /\ pipeline' = [pipeline EXCEPT
                 ![t] = Append(Tail(pipeline[t]), req[t].idx)]
       ELSE pipeline' = [pipeline EXCEPT ![t] = Append(pipeline[t], req[t].idx)]
    /\ running' = [running EXCEPT ![t] = running[t] \cup {req[t].idx}]
    /\ req' = [req EXCEPT ![t].captured = req[t].captured \cup
                 {[tile |-> req[t].idx, ot |-> req[t].out_tile]}]
    /\ pc' = [pc EXCEPT ![t] = "p_abort"]
    /\ UNCHANGED << globals, calls, fault >>

\* waifu2x.cpp:345-355  the abort check through the member should_abort_ptr,
\* then the thermal sleep (a delay only) and the next loop iteration
P_AbortCheck(t) ==
    /\ fault = "none"
    /\ pc[t] = "p_abort"
    /\ IF model.should_abort_ptr # "null" /\ g_abort_processing
       THEN /\ req' = [req EXCEPT ![t].status = "Aborted"]
            /\ pc' = [pc EXCEPT ![t] = "p_unwind"]
       ELSE NextTile(t, [req[t] EXCEPT !.sleeps =
                 IF SleepsAfter(req[t].idx, TotalTiles(req[t]),
                                model.tile_sleep_ms)
                 THEN req[t].sleeps + 1 ELSE req[t].sleeps])
    /\ UNCHANGED << globals, pipeline, running, calls, fault >>

\* variant: the futures do not block on destruction, so return -1 leaves
\* without waiting for the tasks
P_UnwindNoWait(t) ==
    /\ fault = "none"
    /\ pc[t] = "p_unwind"
    /\ pipeline' = [pipeline EXCEPT ![t] = << >>]
    /\ req' = [req EXCEPT ![t].ret = -1]
    /\ pc' = [pc EXCEPT ![t] = "p_clear"]
    /\ UNCHANGED << globals, running, calls, fault >>

\* variant: the early exit returns 0 like the normal exit
P_UnwindReturnsZero(t) ==
    /\ fault = "none"
    /\ pc[t] = "p_unwind"
    /\ running[t] = {}
    /\ pipeline' = [pipeline EXCEPT ![t] = << >>]
    /\ req' = [req EXCEPT ![t].ret = 0]
    /\ pc' = [pc EXCEPT ![t] = "p_clear"]
    /\ UNCHANGED << globals, running, calls, fault >>

\* waifu2x.cpp:230, 348  return -1 inside the loop: the deque of futures is
\* destroyed, and the destructor of a future made by std::async blocks until
\* its task has finished; the caller's lock is still held
P_Unwind(t) ==
    /\ fault = "none"
    /\ pc[t] = "p_unwind"
    /\ running[t] = {}
    /\ pipeline' = [pipeline EXCEPT ![t] = << >>]
    /\ req' = [req EXCEPT ![t].ret = -1]
    /\ pc' = [pc EXCEPT ![t] = "p_clear"]
    /\ UNCHANGED << globals, running, calls, fault >>

\* waifu2x.cpp:366  lock.unlock(): the early release after the tile loop
P_Unlock(t) ==
    /\ fault = "none"
    /\ pc[t] = "p_unlock"
    /\ g_lock' = 0
    /\ req' = [req EXCEPT ![t].unlocks = req[t].unlocks + 1]
    /\ pc' = [pc EXCEPT ![t] = "p_drain"]
    /\ UNCHANGED << g_waifu2x, modelAlive, model, nextModel, g_anime4k,
                    g_progress, g_current_id, g_ui_busy, g_abort_processing,
                    pipeline, running, calls, fault >>

\* the deque after popping every leading future that is already finished
RECURSIVE PopReady(_, _)
PopReady(q, run) ==
    IF q # << >> /\ Head(q) \notin run THEN PopReady(Tail(q), run) ELSE q

\* waifu2x.cpp:369-380  the final drain: wait for the front future and pop
\* it, for as long as the deque is not empty; then store 100 and return 0
P_Drain(t) ==
    /\ fault = "none"
    /\ pc[t] = "p_drain"
    /\ IF pipeline[t] = << >> THEN TRUE ELSE Head(pipeline[t]) \notin running[t]
    /\ pipeline' = [pipeline EXCEPT ![t] = PopReady(pipeline[t], running[t])]
    /\ IF pipeline'[t] = << >>
       THEN /\ g_progress' = 100
            /\ req' = [req EXCEPT ![t].lastStore = 100, ![t].ret = 0,
                                  ![t].status = "Ok"]
            /\ pc' = [pc EXCEPT ![t] = "p_clear"]
       ELSE UNCHANGED << g_progress, req, pc >>
    /\ UNCHANGED << g_waifu2x, modelAlive, model, nextModel, g_anime4k, g_lock,
                    g_current_id, g_ui_busy, g_abort_processing, running,
                    calls, fault >>

\* what a read through the this pointer of request t gives: the members of
\* the live object ("own"), or, once the object is deleted, a fatal signal
\* ("dies"), the bytes it had ("old"), or the members of the object that
\* new Waifu2x has since put at the same address ("new")
ThisViews(t) ==
    IF ThisAlive(t) THEN {"own"}
    ELSE {"dies", "old"} \cup
         (IF g_waifu2x # 0 /\ modelAlive THEN {"new"} ELSE {})

\* waifu2x.cpp:262-342  one write-back task: it reads scale and prepadding
\* through the captured this pointer, writes its rectangle of the caller's
\* output and stores its progress value
TaskFinish(t, k) ==
    /\ fault = "none"
    /\ k \in running[t]
    /\ \E sees \in ThisViews(t) :
         IF sees = "dies"
         THEN /\ fault' = "use_after_free"
              /\ UNCHANGED << g_progress, req, running >>
         ELSE LET r == req[t]
                  p == FinalProgress(k, TotalTiles(r))
                  c == CHOOSE c \in r.captured : c.tile = k
                  scale == IF sees = "old" THEN r.scale ELSE model.scale
                  prepadding == IF sees = "old" THEN r.prepadding
                                ELSE model.prepadding
                  rect == WriteRect(k, TileX(k, r.xtiles, r.tilesize),
                             TileY(k, r.xtiles, r.tilesize),
                             TileW(k, r.xtiles, r.tilesize, r.w),
                             TileH(k, r.xtiles, r.tilesize, r.h),
                             r.target_w, r.target_h, c.ot, scale, prepadding)
              IN  /\ fault' = fault
                  /\ g_progress' = p
                  /\ req' = [req EXCEPT ![t].lastStore = p,
                                        ![t].out = r.out \cup {rect}]
                  /\ running' = [running EXCEPT ![t] = running[t] \ {k}]
    /\ UNCHANGED << pc, g_waifu2x, modelAlive, model, nextModel, g_anime4k,
                    g_lock, g_current_id, g_ui_busy, g_abort_processing,
                    pipeline, calls >>

\* waifu2x_jni.cpp:199-213  progress_ptr and should_abort_ptr of *g_waifu2x
\* are set to nullptr through the global pointer as it is at that moment
\* (null kills the process; a deleted object is undefined: the writes are
\* lost or the process dies), then the unique_lock goes out of scope and the
\* bitmap to hand back is chosen
P_Clear(t) ==
    /\ fault = "none"
    /\ pc[t] = "p_clear"
    /\ \E dies \in BOOLEAN :
         IF g_waifu2x = 0 \/ (~modelAlive /\ dies)
         THEN /\ fault' = IF g_waifu2x = 0 THEN "null_deref"
                          ELSE "use_after_free"
              /\ UNCHANGED << model, g_lock, req, pc >>
         ELSE /\ fault' = fault
              /\ model' = IF modelAlive
                          THEN [model EXCEPT !.progress_ptr = "null",
                                             !.should_abort_ptr = "null"]
                          ELSE model
              /\ g_lock' = ScopeExit(t)
              /\ req' = [req EXCEPT ![t] = Returned(
                           [req[t] EXCEPT !.unlocks =
                              IF ScopeExit(t) # g_lock THEN req[t].unlocks + 1
                              ELSE req[t].unlocks],
                           IF req[t].ret # 0 THEN "input" ELSE "output")]
              /\ pc' = [pc EXCEPT ![t] = "idle"]
    /\ UNCHANGED << g_waifu2x, modelAlive, nextModel, g_anime4k, g_progress,
                    g_current_id, g_ui_busy, g_abort_processing, pipeline,
                    running, calls >>

\* positions of nativeProcess: inside the tile loop, holding the lock from
\* its acquisition on, and between entering and leaving Waifu2x::process
LoopPCs == {"p_infer", "p_interim", "p_push", "p_abort"}
LockedPCs == {"p_setptrs", "p_unwind", "p_unlock"} \cup LoopPCs
ExecutorPCs == LoopPCs \cup {"p_unwind", "p_unlock", "p_drain"}

(***************************************************************************)
(* nativeInit, nativeInitWaifu2xUpconv7, nativeInitRealCugan,              *)
(* nativeInitRealESRGAN, nativeInitNose                                    *)
(***************************************************************************)
Families == {"Cunet", "Upconv7", "RealCugan", "RealESRGAN", "Nose"}

\* waifu2x_jni.cpp:365-370  prepadding of Real-CUGAN by scale
CuganPrepadding(scale) ==
    IF scale = 2 THEN 18
    ELSE IF scale = 3 THEN 14
    ELSE IF scale = 4 THEN 19
    ELSE DefaultPrepadding

\* waifu2x_jni.cpp:319-346  noise_str of Real-CUGAN: the switch over
\* noise_level, then the fallback for 3x/4x
\* variant: without the fallback for 3x/4x
CuganNoiseStrNoFallback(noise_level, scale_level) ==
    CASE noise_level = 0 -> "no-denoise"
      [] noise_level = 1 -> "denoise1x"
      [] noise_level = 2 -> "denoise2x"
      [] noise_level = 3 -> "denoise3x"
      [] noise_level = 4 -> "conservative"
      [] OTHER -> "no-denoise"

CuganNoiseStr(noise_level, scale_level) ==
    LET noise_str == CASE noise_level = 0 -> "no-denoise"
                       [] noise_level = 1 -> "denoise1x"
                       [] noise_level = 2 -> "denoise2x"
                       [] noise_level = 3 -> "denoise3x"
                       [] noise_level = 4 -> "conservative"
                       [] OTHER -> "no-denoise"
    IN  IF scale_level > 2 /\ noise_level > 0 /\ noise_level < 3
        THEN "denoise3x" ELSE noise_str

\* waifu2x_jni.cpp:42-59  the file name nativeInit chooses
\* variant: scale 1 is tested before noise -1
CunetFileScaleFirst(noise_level, scale_level) ==
    IF scale_level = 1 THEN << "noise", noise_level, "_model" >>
    ELSE IF noise_level = -1 THEN << "scale2.0x_model" >>
    ELSE << "noise", noise_level, "_scale2.0x_model" >>

CunetFile(noise_level, scale_level) ==
    IF noise_level = -1 THEN << "scale2.0x_model" >>
    ELSE IF scale_level = 1 THEN << "noise", noise_level, "_model" >>
    ELSE << "noise", noise_level, "_scale2.0x_model" >>

\* the file name each init* builds, without directory and extension
\* (waifu2x_jni.cpp:42-59, 93-96, 348-351, 411-412, 454-455)
ModelFile(a) ==
    CASE a.family = "Cunet" -> CunetFile(a.noise, a.scale)
      [] a.family = "Upconv7" -> << "noise", a.noise, "_scale2.0x_model" >>
      [] a.family = "RealCugan" ->
           << "up", a.scale, "x-", CuganNoiseStr(a.noise, a.scale) >>
      [] a.family = "RealESRGAN" -> << "x", a.scale >>
      [] OTHER -> << "up", 2, "x-", "no-denoise" >>

\* the members each init* sets on the new object (waifu2x_jni.cpp:61-68,
\* 109-117, 354-370, 415-423, 457-464)
InitFields(a) ==
    LET m == [Waifu2xCtor EXCEPT !.progress_ptr = "g_progress",
                                 !.should_abort_ptr = "g_abort_processing",
                                 !.param_file = ModelFile(a) \o << ".param" >>,
                                 !.bin_file = ModelFile(a) \o << ".bin" >>]
    IN  CASE a.family = "Cunet" ->
               [m EXCEPT !.disable_grayscale_check = TRUE,
                         !.noise = a.noise, !.scale = a.scale]
          [] a.family = "Upconv7" ->
               [m EXCEPT !.disable_grayscale_check = TRUE,
                         !.noise = a.noise, !.scale = a.scale,
                         !.prepadding = 7]
          [] a.family = "RealCugan" ->
               [m EXCEPT !.noise = a.noise, !.scale = a.scale,
                         !.tile_sleep_ms = a.sleep,
                         !.prepadding = CuganPrepadding(a.scale)]
          [] a.family = "RealESRGAN" ->
               [m EXCEPT !.noise = 0, !.scale = a.scale, !.prepadding = 10]
          [] OTHER ->
               [m EXCEPT !.noise = 0, !.scale = 2, !.prepadding = 18]

\* waifu2x_jni.cpp:29, 80, 306, 398, 440  g_abort_processing = true is the
\* first statement of every init*, before the lock is requested
CallInit(t, maxCalls, initArgs) ==
    /\ fault = "none"
    /\ pc[t] = "idle"
    /\ calls < maxCalls
    /\ \E a \in initArgs :
         req' = [u \in Threads |->
                   IF u = t THEN [NoReq EXCEPT !.op = "init", !.args = a]
                   ELSE IF pc[u] \in LockedPCs /\ req[u].signalled = ""
                   THEN [req[u] EXCEPT !.signalled = pc[u]]
                   ELSE req[u]]
    /\ g_abort_processing' = TRUE
    /\ pc' = [pc EXCEPT ![t] = "i_lock"]
    /\ calls' = calls + 1
    /\ UNCHANGED << g_waifu2x, modelAlive, model, nextModel, g_anime4k, g_lock,
                    g_progress, g_current_id, g_ui_busy, pipeline, running,
                    fault >>

\* waifu2x_jni.cpp:30-37  the lock is taken, g_abort_processing = false, and
\* the old object is deleted; g_waifu2x keeps pointing to it until the new
\* one is assigned
I_Acquire(t) ==
    /\ fault = "none"
    /\ pc[t] = "i_lock"
    /\ LockFree
    /\ g_lock' = t
    /\ g_abort_processing' = FALSE
    /\ modelAlive' = FALSE
    /\ pc' = [pc EXCEPT ![t] = "i_body"]
    /\ UNCHANGED << g_waifu2x, model, nextModel, g_anime4k, g_progress,
                    g_current_id, g_ui_busy, req, pipeline, running, calls,
                    fault >>

\* waifu2x_jni.cpp:61-73 and Waifu2x::load (waifu2x.cpp:44-98): g_waifu2x =
\* new Waifu2x(0), its members are set, g_progress.store(0), and the weight
\* files load or do not; the object stays in g_waifu2x either way
I_Body(t, loads) ==
    /\ fault = "none"
    /\ pc[t] = "i_body"
    /\ nextModel' = nextModel + 1
    /\ g_waifu2x' = nextModel + 1
    /\ modelAlive' = TRUE
    /\ g_progress' = 0
    /\ \E l \in loads :
         /\ model' = [InitFields(req[t].args) EXCEPT !.net = l]
         /\ req' = [req EXCEPT ![t] = Returned(
                      [req[t] EXCEPT !.ret = IF l = "ok" THEN 0 ELSE -1],
                      IF l = "ok" THEN "true" ELSE "false")]
    /\ g_lock' = ScopeExit(t)
    /\ pc' = [pc EXCEPT ![t] = "idle"]
    /\ UNCHANGED << g_anime4k, g_current_id, g_ui_busy, g_abort_processing,
                    pipeline, running, calls, fault >>

(***************************************************************************)
(* nativeDestroy  (waifu2x_jni.cpp:216-230)                                *)
(***************************************************************************)
CallDestroy(t, maxCalls) ==
    /\ fault = "none"
    /\ pc[t] = "idle"
    /\ calls < maxCalls
    /\ req' = [req EXCEPT ![t] = [NoReq EXCEPT !.op = "destroy"]]
    /\ pc' = [pc EXCEPT ![t] = "d_lock"]
    /\ calls' = calls + 1
    /\ UNCHANGED << globals, pipeline, running, fault >>

\* waifu2x_jni.cpp:219
D_Acquire(t) ==
    /\ fault = "none"
    /\ pc[t] = "d_lock"
    /\ LockFree
    /\ g_lock' = t
    /\ pc' = [pc EXCEPT ![t] = "d_body"]
    /\ UNCHANGED << g_waifu2x, modelAlive, model, nextModel, g_anime4k,
                    g_progress, g_current_id, g_ui_busy, g_abort_processing,
                    req, pipeline, running, calls, fault >>

\* waifu2x_jni.cpp:220-230  both objects are deleted and their pointers nulled
D_Body(t) ==
    /\ fault = "none"
    /\ pc[t] = "d_body"
    /\ g_waifu2x' = 0
    /\ modelAlive' = FALSE
    /\ model' = Waifu2xCtor
    /\ g_anime4k' = FALSE
    /\ g_lock' = ScopeExit(t)
    /\ req' = [req EXCEPT ![t] = Returned(req[t], "void")]
    /\ pc' = [pc EXCEPT ![t] = "idle"]
    /\ UNCHANGED << nextModel, g_progress, g_current_id, g_ui_busy,
                    g_abort_processing, pipeline, running, calls, fault >>

(***************************************************************************)
(* nativeUpdatePerformanceConfig  (waifu2x_jni.cpp:487-497)                *)
(***************************************************************************)
CallUpdate(t, maxCalls, sleeps, tilesizes) ==
    /\ fault = "none"
    /\ pc[t] = "idle"
    /\ calls < maxCalls
    /\ \E s \in sleeps, ts \in tilesizes :
         req' = [req EXCEPT ![t] =
                   [NoReq EXCEPT !.op = "update",
                                 !.args = [sleep |-> s, tilesize |-> ts]]]
    /\ pc' = [pc EXCEPT ![t] = "u_lock"]
    /\ calls' = calls + 1
    /\ UNCHANGED << globals, pipeline, running, fault >>

\* waifu2x_jni.cpp:490
U_Acquire(t) ==
    /\ fault = "none"
    /\ pc[t] = "u_lock"
    /\ LockFree
    /\ g_lock' = t
    /\ pc' = [pc EXCEPT ![t] = "u_body"]
    /\ UNCHANGED << g_waifu2x, modelAlive, model, nextModel, g_anime4k,
                    g_progress, g_current_id, g_ui_busy, g_abort_processing,
                    req, pipeline, running, calls, fault >>

\* waifu2x_jni.cpp:491-497
U_Body(t) ==
    /\ fault = "none"
    /\ pc[t] = "u_body"
    /\ model' = IF g_waifu2x # 0
                THEN [model EXCEPT !.tile_sleep_ms = req[t].args.sleep,
                                   !.tilesize = req[t].args.tilesize]
                ELSE model
    /\ g_lock' = ScopeExit(t)
    /\ req' = [req EXCEPT ![t] = Returned(req[t], "void")]
    /\ pc' = [pc EXCEPT ![t] = "idle"]
    /\ UNCHANGED << g_waifu2x, modelAlive, nextModel, g_anime4k, g_progress,
                    g_current_id, g_ui_busy, g_abort_processing, pipeline,
                    running, calls, fault >>

(***************************************************************************)
(* nativeInitAnime4K / nativeProcessAnime4K  (waifu2x_jni.cpp:232-301)     *)
(***************************************************************************)
CallInitAnime4K(t, maxCalls) ==
    /\ fault = "none"
    /\ pc[t] = "idle"
    /\ calls < maxCalls
    /\ req' = [req EXCEPT ![t] = [NoReq EXCEPT !.op = "initAnime4K"]]
    /\ pc' = [pc EXCEPT ![t] = "a_lock"]
    /\ calls' = calls + 1
    /\ UNCHANGED << globals, pipeline, running, fault >>

\* waifu2x_jni.cpp:235
A_Acquire(t) ==
    /\ fault = "none"
    /\ pc[t] = "a_lock"
    /\ LockFree
    /\ g_lock' = t
    /\ pc' = [pc EXCEPT ![t] = "a_body"]
    /\ UNCHANGED << g_waifu2x, modelAlive, model, nextModel, g_anime4k,
                    g_progress, g_current_id, g_ui_busy, g_abort_processing,
                    req, pipeline, running, calls, fault >>

\* waifu2x_jni.cpp:236-255  the chain object is replaced and its passes loaded
A_Body(t) ==
    /\ fault = "none"
    /\ pc[t] = "a_body"
    /\ g_anime4k' = TRUE
    /\ \E ok \in BOOLEAN :
         req' = [req EXCEPT ![t].ret = IF ok THEN 0 ELSE -1,
                            ![t].result = IF ok THEN "true" ELSE "false"]
    /\ g_lock' = ScopeExit(t)
    /\ pc' = [pc EXCEPT ![t] = "idle"]
    /\ UNCHANGED << g_waifu2x, modelAlive, model, nextModel, g_progress,
                    g_current_id, g_ui_busy, g_abort_processing, pipeline,
                    running, calls, fault >>

CallProcessAnime4K(t, maxCalls) ==
    /\ fault = "none"
    /\ pc[t] = "idle"
    /\ calls < maxCalls
    /\ req' = [req EXCEPT ![t] = [NoReq EXCEPT !.op = "processAnime4K"]]
    /\ pc' = [pc EXCEPT ![t] = "s_lock"]
    /\ calls' = calls + 1
    /\ UNCHANGED << globals, pipeline, running, fault >>

\* waifu2x_jni.cpp:261
S_Acquire(t) ==
    /\ fault = "none"
    /\ pc[t] = "s_lock"
    /\ LockFree
    /\ g_lock' = t
    /\ pc' = [pc EXCEPT ![t] = "s_body"]
    /\ UNCHANGED << g_waifu2x, modelAlive, model, nextModel, g_anime4k,
                    g_progress, g_current_id, g_ui_busy, g_abort_processing,
                    req, pipeline, running, calls, fault >>

\* waifu2x_jni.cpp:262-300  no chain or no output bitmap: the input is handed
\* back; otherwise the chain renders into the new bitmap
S_Body(t) ==
    /\ fault = "none"
    /\ pc[t] = "s_body"
    /\ \E outOk \in BOOLEAN :
         req' = [req EXCEPT ![t].result =
                   IF g_anime4k /\ outOk THEN "output" ELSE "input"]
    /\ g_lock' = ScopeExit(t)
    /\ pc' = [pc EXCEPT ![t] = "idle"]
    /\ UNCHANGED << g_waifu2x, modelAlive, model, nextModel, g_anime4k,
                    g_progress, g_current_id, g_ui_busy, g_abort_processing,
                    pipeline, running, calls, fault >>

(***************************************************************************)
(* nativeGetProgress, nativeSetUiBusy  (waifu2x_jni.cpp:472-485)           *)
(***************************************************************************)
\* waifu2x_jni.cpp:476  jlong id = (jlong)g_current_id.load()
CallGetProgress(t, maxCalls) ==
    /\ fault = "none"
    /\ pc[t] = "idle"
    /\ calls < maxCalls
    /\ req' = [req EXCEPT ![t] =
                 [NoReq EXCEPT !.op = "getProgress", !.id = g_current_id]]
    /\ pc' = [pc EXCEPT ![t] = "g_progress"]
    /\ calls' = calls + 1
    /\ UNCHANGED << globals, pipeline, running, fault >>

\* 64-bit integers are records of two 32-bit words, hi and lo, each held as
\* the int32 with the same bits (-1 is 0xFFFFFFFF)
\* one bit of x AND y (and = TRUE) or of x OR y
Bit(and, bx, by) ==
    IF and THEN bx * by ELSE (IF bx + by > 0 THEN 1 ELSE 0)

\* bits 0..3 of x AND y, or of x OR y, as a natural number
Nibble(and, x, y) ==
    Bit(and, x % 2, y % 2)
    + 2 * Bit(and, (x \div 2) % 2, (y \div 2) % 2)
    + 4 * Bit(and, (x \div 4) % 2, (y \div 4) % 2)
    + 8 * Bit(and, (x \div 8) % 2, (y \div 8) % 2)

\* bits 0..30 of x AND y, or of x OR y: seven nibbles and bits 28..30
LowBits(and, x, y) ==
    Nibble(and, x, y)
    + 16 * Nibble(and, x \div 16, y \div 16)
    + 256 * Nibble(and, x \div 256, y \div 256)
    + 4096 * Nibble(and, x \div 4096, y \div 4096)
    + 65536 * Nibble(and, x \div 65536, y \div 65536)
    + 1048576 * Nibble(and, x \div 1048576, y \div 1048576)
    + 16777216 * Nibble(and, x \div 16777216, y \div 16777216)
    + 268435456 * (Nibble(and, x \div 268435456, y \div 268435456) % 8)

\* x & y and x | y on 32-bit words: 31 low bits and the sign bit
Word(and, x, y) ==
    LET sign == IF and THEN x < 0 /\ y < 0 ELSE x < 0 \/ y < 0
    IN  LowBits(and, x, y) + (IF sign THEN -2147483647 - 1 ELSE 0)

And64(a, b) == [hi |-> Word(TRUE, a.hi, b.hi), lo |-> Word(TRUE, a.lo, b.lo)]
Or64(a, b) == [hi |-> Word(FALSE, a.hi, b.hi), lo |-> Word(FALSE, a.lo, b.lo)]

\* (jlong)x of an int: sign extension
ToJlong(x) == [hi |-> IF x < 0 THEN -1 ELSE 0, lo |-> x]

\* v << 32
Shl32(v) == [hi |-> v.lo, lo |-> 0]

\* the literal 0xFFFFFFFF, an unsigned int, converted to jlong
MaskLow32 == [hi |-> 0, lo |-> -1]

\* waifu2x_jni.cpp:476-478  (id << 32) | (progress & 0xFFFFFFFF)
\* variant: the two halves are exchanged
PackedProgressSwapped(id, progress) ==
    Or64(Shl32(ToJlong(progress)), And64(ToJlong(id), MaskLow32))

PackedProgress(id, progress) ==
    Or64(Shl32(ToJlong(id)), And64(ToJlong(progress), MaskLow32))

\* waifu2x_jni.cpp:477-478  the second load and the packing; the two values
\* loaded are kept in the fields id and progress
G_Progress(t) ==
    /\ fault = "none"
    /\ pc[t] = "g_progress"
    /\ req' = [req EXCEPT ![t].result = "packed",
                          ![t].progress = g_progress,
                          ![t].packed = PackedProgress(req[t].id, g_progress)]
    /\ pc' = [pc EXCEPT ![t] = "idle"]
    /\ UNCHANGED << globals, pipeline, running, calls, fault >>

\* waifu2x_jni.cpp:484  g_ui_busy.store(busy ? 1 : 0)
SetUiBusy(t, maxCalls) ==
    /\ fault = "none"
    /\ pc[t] = "idle"
    /\ calls < maxCalls
    /\ \E busy \in BOOLEAN : g_ui_busy' = IF busy THEN 1 ELSE 0
    /\ req' = [req EXCEPT ![t] = [NoReq EXCEPT !.op = "setUiBusy",
                                               !.result = "void"]]
    /\ calls' = calls + 1
    /\ UNCHANGED << pc, g_waifu2x, modelAlive, model, nextModel, g_anime4k,
                    g_lock, g_progress, g_current_id, g_abort_processing,
                    pipeline, running, fault >>

(***************************************************************************)
(* The steps inside each kind of call                                      *)
(***************************************************************************)
ProcessStep(t, outcomes, inFlight) ==
    \/ P_Acquire(t)
    \/ P_SetPtrs(t)
    \/ P_Infer(t, outcomes)
    \/ P_Interim(t)
    \/ P_Push(t, inFlight)
    \/ P_AbortCheck(t)
    \/ P_Unwind(t)
    \/ P_Unlock(t)
    \/ P_Drain(t)
    \/ P_Clear(t)
    \/ \E k \in running[t] : TaskFinish(t, k)

InitStep(t, loads) == I_Acquire(t) \/ I_Body(t, loads)

DestroyStep(t) == D_Acquire(t) \/ D_Body(t)

UpdateStep(t) == U_Acquire(t) \/ U_Body(t)

Anime4KStep(t) == A_Acquire(t) \/ A_Body(t) \/ S_Acquire(t) \/ S_Body(t)

(***************************************************************************)
(* Spec: NThreads callers, every entry point, at most MaxCalls calls       *)
(***************************************************************************)
\* image sides: 1..MaxTiles tiles of the default tile size
Widths == { k * DefaultTileSize : k \in 1..MaxTilesX }
Heights == { k * DefaultTileSize : k \in 1..MaxTilesY }

\* arguments of init*
InitArgs ==
    { [family |-> "RealCugan", noise |-> 0, scale |-> 2, sleep |-> 0],
      [family |-> "RealESRGAN", noise |-> 0, scale |-> 4, sleep |-> 0] }

\* outcomes of Waifu2x::load and of one tile inference
Loads == {"ok", "no_param"}
Outcomes == {"ok", "empty"}

\* who calls what: threads 1 and 2 are image workers, thread 2 also
\* re-initialises and polls, thread 3 is the settings and UI thread
Workers == {1, 2}
Initialisers == {2, 3}
Pollers == {2, 3}
Controllers == {3}

ThreadCall(t) ==
    \/ t \in Workers /\ CallProcess(t, MaxCalls, Widths, Heights)
    \/ t \in Initialisers /\ CallInit(t, MaxCalls, InitArgs)
    \/ t \in Pollers /\ CallGetProgress(t, MaxCalls)
    \/ t \in Controllers /\ CallDestroy(t, MaxCalls)
    \/ t \in Controllers /\ CallUpdate(t, MaxCalls, {0}, {DefaultTileSize})
    \/ t \in Controllers /\ CallInitAnime4K(t, MaxCalls)
    \/ t \in Controllers /\ CallProcessAnime4K(t, MaxCalls)
    \/ t \in Controllers /\ SetUiBusy(t, MaxCalls)

ThreadStep(t) ==
    \/ ProcessStep(t, Outcomes, PipelineDepth)
    \/ InitStep(t, Loads)
    \/ DestroyStep(t)
    \/ UpdateStep(t)
    \/ Anime4KStep(t)
    \/ G_Progress(t)

Next == \E t \in Threads : ThreadCall(t) \/ ThreadStep(t)

Spec == Init /\ [][Next]_vars

(***************************************************************************)
(* SpecOverlap: back-to-back requests of two workers that overlap through  *)
(* the early release, with one thread that initialises and polls           *)
(***************************************************************************)
OverlapCall(t) ==
    \/ t \in Workers /\ CallProcess(t, MaxCallsOverlap, Widths, Heights)
    \/ t \in Controllers /\ CallInit(t, MaxCallsOverlap,
           { [family |-> "RealCugan", noise |-> 0, scale |-> 2, sleep |-> 0] })
    \/ t \in Controllers /\ CallGetProgress(t, MaxCallsOverlap)

OverlapStep(t) ==
    \/ ProcessStep(t, {"ok"}, PipelineDepth)
    \/ InitStep(t, {"ok"})
    \/ G_Progress(t)

NextOverlap == \E t \in Threads : OverlapCall(t) \/ OverlapStep(t)

SpecOverlap == Init /\ [][NextOverlap]_vars

(***************************************************************************)
(* SpecSingle: one request at a time on large tile grids; thread 1 is the  *)
(* only worker, thread 3 initialises and tunes                             *)
(***************************************************************************)
SingleSides == { DefaultTileSize, 2 * DefaultTileSize,
                 MaxGridSingle * DefaultTileSize }

SingleCall(t) ==
    \/ t = 1 /\ CallProcess(t, MaxCallsSingle, SingleSides, SingleSides)
    \/ t = 3 /\ CallInit(t, MaxCallsSingle,
           { [family |-> "RealCugan", noise |-> 0, scale |-> 3, sleep |-> 1] })

SingleStep(t) ==
    \/ ProcessStep(t, {"ok"}, MaxInFlight)
    \/ InitStep(t, Loads)

NextSingle == \E t \in Threads : SingleCall(t) \/ SingleStep(t)

SpecSingle == Init /\ [][NextSingle]_vars

(***************************************************************************)
(* SpecTiles: the output rectangles of one worker's requests on images     *)
(* with partial edge tiles, for two tile sizes, two scales and three kinds  *)
(* of tile output; thread 3 initialises and sets the tile size             *)
(***************************************************************************)
TileSides == { OddSide, DefaultTileSize }

TileInitArgs ==
    { [family |-> "RealCugan", noise |-> 0, scale |-> 2, sleep |-> 0],
      [family |-> "RealESRGAN", noise |-> 0, scale |-> 4, sleep |-> 0] }

TileOutcomes == {"ok", "unpadded", "short"}

TilesCall(t) ==
    \/ t = 1 /\ CallProcess(t, MaxCallsTiles, TileSides, {OddSide})
    \/ t = 3 /\ CallInit(t, MaxCallsTiles, TileInitArgs)
    \/ t = 3 /\ CallUpdate(t, MaxCallsTiles, {0}, {SmallTile})

TilesStep(t) ==
    \/ ProcessStep(t, TileOutcomes, MaxInFlight)
    \/ InitStep(t, {"ok"})
    \/ UpdateStep(t)

NextTiles == \E t \in Threads : TilesCall(t) \/ TilesStep(t)

SpecTiles == Init /\ [][NextTiles]_vars

(***************************************************************************)
(* SpecInit: the init* entry points over the whole argument domain of the  *)
(* session: Real-CUGAN noise 0..4 and scale 2..4, waifu2x noise -1..3 and  *)
(* scale 1..2, Real-ESRGAN scale 2..4                                      *)
(***************************************************************************)
CuganArgs ==
    { [family |-> "RealCugan", noise |-> n, scale |-> s, sleep |-> 0] :
        n \in 0..4, s \in 2..4 }
CunetArgs ==
    { [family |-> f, noise |-> n, scale |-> s, sleep |-> 0] :
        f \in {"Cunet", "Upconv7"}, n \in -1..3, s \in 1..2 }
OtherArgs ==
    { [family |-> "RealESRGAN", noise |-> 0, scale |-> s, sleep |-> 0] :
        s \in 2..4 }
    \cup { [family |-> "Nose", noise |-> 0, scale |-> 2, sleep |-> 0] }

InitCall(t) ==
    t \in Initialisers
      /\ CallInit(t, MaxCallsInit, CuganArgs \cup CunetArgs \cup OtherArgs)

NextInit == \E t \in Threads : InitCall(t) \/ InitStep(t, Loads)

SpecInit == Init /\ [][NextInit]_vars

(***************************************************************************)
(* SpecProgress: nativeGetProgress on every pair of values the two atomics *)
(* can hold: an id a caller passed to nativeProcess (any jint, or the      *)
(* initial -1) and a progress value of 0..100                              *)
(***************************************************************************)
ProgressIds ==
    { -1, 0, 1, 2, 100, 65535, 65536, 2147483647, -2, -65536,
      -2147483647, -2147483647 - 1 }

InitProgress ==
    /\ pc = [t \in Threads |-> "idle"]
    /\ g_waifu2x = 0
    /\ modelAlive = FALSE
    /\ model = Waifu2xCtor
    /\ nextModel = 0
    /\ g_anime4k = FALSE
    /\ g_lock = 0
    /\ g_progress \in 0..100
    /\ g_current_id \in ProgressIds
    /\ g_ui_busy = 0
    /\ g_abort_processing = FALSE
    /\ req = [t \in Threads |-> NoReq]
    /\ pipeline = [t \in Threads |-> << >>]
    /\ running = [t \in Threads |-> {}]
    /\ calls = 0
    /\ fault = "none"

NextProgress ==
    \E t \in Threads :
      \/ t \in Pollers /\ CallGetProgress(t, MaxCallsProgress)
      \/ G_Progress(t)

SpecProgress == InitProgress /\ [][NextProgress]_vars

(***************************************************************************)
(* The shader chain: Anime4K::load and Anime4K::process (anime4k.cpp)      *)
(***************************************************************************)
\* anime4k.cpp:130-147  the scales of the pass made from one shader source,
\* given by whether it has a //!WIDTH line with a * and a //!HEIGHT line
\* with a *
ParsePass(src) ==
    [ scale_x |-> IF src.width_mul THEN 2 ELSE 1,
      scale_y |-> IF src.height_mul THEN 2 ELSE 1 ]

\* the passes of a shader list, in order (anime4k.cpp:127-165)
RECURSIVE ParsePasses(_)
ParsePasses(shaders) ==
    IF shaders = << >> THEN << >>
    ELSE << ParsePass(Head(shaders)) >> \o ParsePasses(Tail(shaders))

\* the conversion of an int to float: exact below 2^24, else rounded to the
\* 24-bit significand (to nearest, ties to even)
RECURSIVE Ulp(_)
Ulp(n) == IF n < 16777216 THEN 1 ELSE 2 * Ulp(n \div 2)
FloatOfInt(n) ==
    LET u == Ulp(n)
        lo == (n \div u) * u
        rest == n - lo
    IN  IF 2 * rest < u THEN lo
        ELSE IF 2 * rest > u THEN lo + u
        ELSE IF (lo \div u) % 2 = 0 THEN lo ELSE lo + u

\* anime4k.cpp:211-212  int next = curr * pass.scale: the int is converted
\* to float, multiplied, and the product truncated
NextSize(curr, scale) == FloatOfInt(curr) * scale

\* variant: the horizontal scale is used for both sides
PassOutputXOnly(curr_w, curr_h, pass) ==
    [ w |-> NextSize(curr_w, pass.scale_x),
      h |-> NextSize(curr_h, pass.scale_x) ]

PassOutput(curr_w, curr_h, pass) ==
    [ w |-> NextSize(curr_w, pass.scale_x),
      h |-> NextSize(curr_h, pass.scale_y) ]

\* anime4k.cpp:208-238  curr_w, curr_h after the loop over the passes
RECURSIVE ChainOutput(_, _, _)
ChainOutput(curr_w, curr_h, passes) ==
    IF passes = << >> THEN [w |-> curr_w, h |-> curr_h]
    ELSE LET next == PassOutput(curr_w, curr_h, Head(passes))
         IN  ChainOutput(next.w, next.h, Tail(passes))

\* anime4k.cpp:123-166  Anime4K::load on a new chain object: -1 without a GL
\* context, else one pass is appended per shader
K_Load(t) ==
    /\ fault = "none"
    /\ pc[t] = "k_load"
    /\ \E egl \in BOOLEAN :
         req' = [req EXCEPT
                   ![t].passes = IF egl
                                 THEN req[t].passes
                                      \o ParsePasses(req[t].args.shaders)
                                 ELSE req[t].passes,
                   ![t].ret = IF egl THEN 0 ELSE -1]
    /\ pc' = [pc EXCEPT ![t] = "k_size"]
    /\ UNCHANGED << globals, pipeline, running, calls, fault >>

\* a float product: the exact product rounded to float
FloatMul(a, b) == FloatOfInt(a * b)

\* anime4k.cpp:247-251  curr_w, curr_h as floats after the loop over the
\* passes of get_output_size
RECURSIVE FloatChain(_, _, _)
FloatChain(curr_w, curr_h, passes) ==
    IF passes = << >> THEN [w |-> curr_w, h |-> curr_h]
    ELSE FloatChain(FloatMul(curr_w, Head(passes).scale_x),
                    FloatMul(curr_h, Head(passes).scale_y), Tail(passes))

\* variant: the height is not scaled
GetOutputSizeWidthOnly(width, height, passes) ==
    [ w |-> FloatChain(FloatOfInt(width), FloatOfInt(height), passes).w,
      h |-> FloatOfInt(height) ]

\* anime4k.cpp:246-254  Anime4K::get_output_size: width and height are
\* converted to float, multiplied by the scales of every pass, and cast to
\* int at the end (the values are whole numbers, which the cast keeps)
GetOutputSize(width, height, passes) ==
    FloatChain(FloatOfInt(width), FloatOfInt(height), passes)

\* waifu2x_jni.cpp:264-283  nativeProcessAnime4K asks the chain for the
\* output size and creates the result bitmap of that size
K_GetOutputSize(t) ==
    /\ fault = "none"
    /\ pc[t] = "k_size"
    /\ req' = [req EXCEPT ![t].outBitmap =
                 GetOutputSize(req[t].w, req[t].h, req[t].passes)]
    /\ pc' = [pc EXCEPT ![t] = "k_process"]
    /\ UNCHANGED << globals, pipeline, running, calls, fault >>

\* anime4k.cpp:168-244  Anime4K::process: -1 without a GL context, leaving
\* out_w and out_h unassigned, else the sizes after the last pass
K_Process(t) ==
    /\ fault = "none"
    /\ pc[t] = "k_process"
    /\ \E egl \in BOOLEAN :
         IF egl
         THEN LET o == ChainOutput(req[t].w, req[t].h, req[t].passes)
              IN  req' = [req EXCEPT ![t].out_w = o.w, ![t].out_h = o.h,
                                     ![t].ret = 0]
         ELSE req' = [req EXCEPT ![t].ret = -1]
    /\ pc' = [pc EXCEPT ![t] = "k_done"]
    /\ UNCHANGED << globals, pipeline, running, calls, fault >>

\* shader sources by their //!WIDTH and //!HEIGHT lines, the chains of up to
\* MaxPasses of them, and bitmap sizes
ShaderSources == [width_mul : BOOLEAN, height_mul : BOOLEAN]
RECURSIVE ShaderLists(_)
ShaderLists(n) ==
    IF n = 0 THEN { << >> }
    ELSE ShaderLists(n - 1)
         \cup { << s >> \o l : s \in ShaderSources,
                               l \in { x \in ShaderLists(n - 1) :
                                         Len(x) = n - 1 } }
ChainSizes == { <<1, 1>>, <<32, 32>>, <<33, 17>>, <<1920, 1080>> }

\* nativeInitAnime4K has made a new chain object and is about to load the
\* shaders into it; the bitmap is the one processed afterwards
InitChain ==
    /\ pc = [t \in Threads |-> IF t = 3 THEN "k_load" ELSE "idle"]
    /\ g_waifu2x = 0
    /\ modelAlive = FALSE
    /\ model = Waifu2xCtor
    /\ nextModel = 0
    /\ g_anime4k = TRUE
    /\ g_lock = 3
    /\ g_progress = 0
    /\ g_current_id = -1
    /\ g_ui_busy = 0
    /\ g_abort_processing = FALSE
    /\ \E s \in ChainSizes, l \in ShaderLists(MaxPasses) :
         req = [t \in Threads |->
                  IF t = 3
                  THEN [NoReq EXCEPT !.op = "initAnime4K", !.w = s[1],
                                     !.h = s[2], !.args = [shaders |-> l]]
                  ELSE NoReq]
    /\ pipeline = [t \in Threads |-> << >>]
    /\ running = [t \in Threads |-> {}]
    /\ calls = 1
    /\ fault = "none"

NextChain ==
    \E t \in Threads : K_Load(t) \/ K_GetOutputSize(t) \/ K_Process(t)

SpecChain == InitChain /\ [][NextChain]_vars

(***************************************************************************)
(* The colour pipeline of Waifu2x::process: grayscale detection over the   *)
(* input (waifu2x.cpp:135-161) and the conversion of one tile value to the *)
(* four bytes of an output pixel (waifu2x.cpp:314-335).  Float values are  *)
(* integers in units of 10^-3.                                             *)
(***************************************************************************)
Milli == 1000

Abs(v) == IF v < 0 THEN -v ELSE v

\* waifu2x.cpp:142-143  the pixel has significant colour
IsColorPixel(p) == Abs(p.r - p.g) > 5 \/ Abs(p.r - p.b) > 5

\* waifu2x.cpp:137-145  color_pixel_count after the loop over an image given
\* as runs of n equal pixels px
RECURSIVE ColorPixelCount(_)
ColorPixelCount(runs) ==
    IF runs = << >> THEN 0
    ELSE (IF IsColorPixel(Head(runs).px) THEN Head(runs).n ELSE 0)
         + ColorPixelCount(Tail(runs))

\* waifu2x.cpp:138  color_threshold_count = w * h / 200
ColorThresholdCount(w, h) == (w * h) \div 200

\* waifu2x.cpp:122, 152-158  is_grayscale after both tests
\* variant: the tolerance test is >= instead of >
IsGrayscaleStrict(count, w, h, disable) ==
    ~(count >= ColorThresholdCount(w, h)) /\ ~disable

IsGrayscale(count, w, h, disable) ==
    ~(count > ColorThresholdCount(w, h)) /\ ~disable

\* waifu2x.cpp:328  (unsigned char)std::max(0.0f, std::min(255.0f, v)): the
\* clamped value converts by truncation
ClampByte(v) ==
    IF v < 0 THEN 0 ELSE IF v > 255 * Milli THEN 255 ELSE v \div Milli

\* waifu2x.cpp:334  (unsigned char)v without a clamp: a value in 0..255
\* converts by truncation; outside that range the conversion is undefined,
\* and builds give the low byte of the integer part or a saturated byte
UCharCast(v) ==
    IF v >= 0 /\ v < 256 * Milli THEN { v \div Milli }
    ELSE { (IF v < 0 THEN -((-v) \div Milli) ELSE v \div Milli) % 256,
           IF v < 0 THEN 0 ELSE 255 }

\* waifu2x.cpp:320  (r + g + b) * 0.333333f
Gray(r, g, b) ==
    LET s == r + g + b
    IN  ((s \div 1000) * 333333) \div 1000
        + ((s % 1000) * 333333) \div 1000000

\* waifu2x.cpp:315-332  the colour bytes of one pixel from the tile values
\* r, g, b (already multiplied by 255)
\* variant: the gray value replaces r only
ColorBytesGrayRedOnly(is_grayscale, r, g, b) ==
    LET gray == Gray(r, g, b)
    IN  << ClampByte(IF is_grayscale THEN gray ELSE r), ClampByte(g),
           ClampByte(b) >>

ColorBytes(is_grayscale, r, g, b) ==
    LET gray == Gray(r, g, b)
    IN  IF is_grayscale
        THEN << ClampByte(gray), ClampByte(gray), ClampByte(gray) >>
        ELSE << ClampByte(r), ClampByte(g), ClampByte(b) >>

\* waifu2x.cpp:333-334  the alpha byte from the pre-scaled alpha value a at
\* the destination pixel (a plane of values 0..255 made by from_pixels and
\* the interpolation of waifu2x.cpp:169-177), or 255 without an alpha plane
\* variant: the alpha value is clamped and not multiplied
AlphaBytesClamped(has_alpha, a) ==
    IF has_alpha THEN { ClampByte(a) } ELSE { 255 }

AlphaBytes(has_alpha, a) ==
    IF has_alpha THEN UCharCast(a * 255) ELSE { 255 }

\* waifu2x.cpp:135-161  the detection pass of one request
C_Detect(t) ==
    /\ fault = "none"
    /\ pc[t] = "c_detect"
    /\ LET a == req[t].args
           count == ColorPixelCount(a.runs)
       IN  req' = [req EXCEPT
                     ![t].color_pixel_count = count,
                     ![t].is_grayscale =
                        IsGrayscale(count, a.w, a.h,
                                    model.disable_grayscale_check)]
    /\ pc' = [pc EXCEPT ![t] = "c_write"]
    /\ UNCHANGED << globals, pipeline, running, calls, fault >>

\* waifu2x.cpp:314-335  one iteration of the inner loop of a write-back task
C_Write(t) ==
    /\ fault = "none"
    /\ pc[t] = "c_write"
    /\ LET a == req[t].args
       IN  \E abyte \in AlphaBytes(a.has_alpha, a.alpha) :
             req' = [req EXCEPT ![t].pixel =
                       ColorBytes(req[t].is_grayscale, a.tile.r, a.tile.g,
                                  a.tile.b) \o << abyte >>]
    /\ pc' = [pc EXCEPT ![t] = "c_written"]
    /\ UNCHANGED << globals, pipeline, running, calls, fault >>

\* input pixels within the tolerance of 5 and beyond it
GrayPixels == { [r |-> 100, g |-> 100, b |-> 100],
                [r |-> 100, g |-> 105, b |-> 95] }
ColorPixels == { [r |-> 100, g |-> 106, b |-> 100],
                 [r |-> 100, g |-> 100, b |-> 94] }

\* image sizes below, at and above 200 pixels, and the numbers of colourful
\* pixels around the tolerance of each
ColorSizes == { <<1, 1>>, <<ColorSideA, ColorSideB>>,
                <<ColorSideB, ColorSideB>>, <<ColorSideB, ColorSideB + 1>> }
ColorCounts(w, h) == { k \in {0, 1, 2, 3, w * h} : k <= w * h }

\* pre-scaled alpha values (transparent, opaque, between, and the overshoot
\* of a bicubic filter) and tile values, in units of 10^-3
AlphaValues == { 0, Milli, 128 * Milli, 254 * Milli + 500, 255 * Milli,
                 256 * Milli, -Milli }
TileValues == { [r |-> 0, g |-> 0, b |-> 0],
                [r |-> 255 * Milli, g |-> 255 * Milli, b |-> 255 * Milli],
                [r |-> 10 * Milli + 400, g |-> 200 * Milli, b |-> 90 * Milli],
                [r |-> -3 * Milli, g |-> 300 * Milli, b |-> 128 * Milli] }

\* a request inside Waifu2x::process on a loaded model, before its detection
\* pass, for every input of the sets above
InitColor ==
    /\ pc = [t \in Threads |-> IF t = 1 THEN "c_detect" ELSE "idle"]
    /\ g_waifu2x = 1
    /\ modelAlive = TRUE
    /\ \E d \in BOOLEAN :
         model = [Waifu2xCtor EXCEPT !.disable_grayscale_check = d,
                                     !.progress_ptr = "g_progress",
                                     !.should_abort_ptr = "g_abort_processing",
                                     !.net = "ok"]
    /\ nextModel = 1
    /\ g_anime4k = FALSE
    /\ g_lock = 1
    /\ g_progress = 0
    /\ g_current_id = 1
    /\ g_ui_busy = 0
    /\ g_abort_processing = FALSE
    /\ \E s \in ColorSizes, gp \in GrayPixels, cp \in ColorPixels,
          ha \in BOOLEAN, al \in AlphaValues, tv \in TileValues :
         \E k \in ColorCounts(s[1], s[2]) :
           req = [t \in Threads |->
                    IF t = 1
                    THEN [NoReq EXCEPT
                            !.op = "process", !.id = 1, !.w = s[1], !.h = s[2],
                            !.this = 1,
                            !.args = [w |-> s[1], h |-> s[2],
                                      runs |-> << [px |-> gp, n |-> s[1] * s[2] - k],
                                                  [px |-> cp, n |-> k] >>,
                                      has_alpha |-> ha, alpha |-> al,
                                      tile |-> tv]]
                    ELSE NoReq]
    /\ pipeline = [t \in Threads |-> << >>]
    /\ running = [t \in Threads |-> {}]
    /\ calls = 1
    /\ fault = "none"

NextColor == \E t \in Threads : C_Detect(t) \/ C_Write(t)

SpecColor == InitColor /\ [][NextColor]_vars

(***************************************************************************)
(* SpecFair: Spec under a scheduler that lets every thread with an enabled *)
(* step (a statement of its call, a lock acquisition once the mutex is     *)
(* free, a tile inference, the end of a write-back task) take it           *)
(* eventually; callers are free never to make another call                 *)
(***************************************************************************)
SpecFair == Spec /\ \A t \in Threads : WF_vars(ThreadStep(t))

(***************************************************************************)
(* Properties                                                              *)
(***************************************************************************)
\* positions inside the body of a lock_guard entry point
BodyPCs == {"i_body", "d_body", "u_body", "a_body", "s_body"}

\* C1: at most one process* request is between taking the session lock and
\* its early release, and no body of init*, destroy, updatePerformanceConfig,
\* initAnime4K or processAnime4K runs while a request is in that phase
C1_OneRequestHoldsLock ==
    \A t \in Threads :
      pc[t] \in LockedPCs =>
        \A u \in Threads \ {t} : pc[u] \notin LockedPCs \cup BodyPCs

\* C1 witness: a request is running tile inference while an init* is waiting
\* for the lock
C1_Witness ==
    \E t, u \in Threads : pc[t] = "p_infer" /\ pc[u] = "i_lock"

\* C2: the model object of a process* call is not deleted before that call
\* has returned (its write-back tasks and its epilogue still use it)
C2_ModelOutlivesRequest ==
    \A t \in Threads :
      pc[t] \in ExecutorPCs \cup {"p_clear"} => ThisAlive(t)

\* positions whose next statement writes the model handle, a member of the
\* model object (progress_ptr, should_abort_ptr, tilesize, tile_sleep_ms)
SessionWritePCs == {"p_setptrs", "p_clear", "i_body", "d_body", "u_body"}

\* C3: every write to session state is made by a thread that holds the lock
C3_WritesUnderLock ==
    \A t \in Threads : pc[t] \in SessionWritePCs => g_lock = t

\* C4: Waifu2x::process has returned (Ok, abort or backend failure) only when
\* every write-back task it started has finished
C4_ReturnsAfterWriteBacks ==
    \A t \in Threads : pc[t] \in {"p_clear", "idle"} => running[t] = {}

\* C4 witness: an aborted request has returned from the executor after it
\* had started write-back tasks
C4_Witness ==
    \E t \in Threads :
      /\ pc[t] = "p_clear"
      /\ req[t].status = "Aborted"
      /\ req[t].inferences >= 1

\* C5: a request that was in its tile loop when an init* set shouldAbort
\* leaves through the abort exit at its next abort check: it runs no further
\* tile inference and returns failure
C5_AbortHonoured ==
    [][\A t \in Threads :
         (pc[t] = "p_abort" /\ req[t].signalled \in LoopPCs
            /\ pc'[t] # pc[t]) => pc'[t] = "p_unwind"]_vars

\* C6: the values one request stores to progress never decrease
C6_ProgressMonotone ==
    [][\A t \in Threads :
         (req[t].lastStore # -1 /\ req'[t].lastStore # -1)
           => req'[t].lastStore >= req[t].lastStore]_vars

\* C7: getProgress returns (X, 100) only when no write-back task of request X
\* is still unfinished
C7_HundredAfterWriteBack ==
    \A t, u \in Threads :
      ( /\ pc[t] = "idle"
        /\ req[t].op = "getProgress"
        /\ req[t].result = "packed"
        /\ req[t].progress = 100
        /\ req[u].op = "process"
        /\ req[u].id = req[t].id ) => running[u] = {}

\* C8: in one request every value stored before the final drain has finished
\* is in 0..99, a request that returns Ok has stored 100 last, and a request
\* that returns failure has not stored 100
C8_ProgressRange ==
    \A t \in Threads :
      /\ pc[t] \in ExecutorPCs => req[t].lastStore \in -1..99
      /\ pc[t] = "p_clear" =>
           IF req[t].status = "Ok" THEN req[t].lastStore = 100
           ELSE req[t].lastStore \in -1..99

\* C8 witness: a request of at least 100 tiles has returned Ok from the
\* executor with 100 as its last stored value
C8_Witness ==
    \E t \in Threads :
      /\ pc[t] = "p_clear"
      /\ req[t].status = "Ok"
      /\ req[t].lastStore = 100
      /\ TotalTiles(req[t]) >= 100

\* C9: once a request has stored its first progress value (right after the
\* first tile's inference), the value it has stored last is at least 1
C9_ProgressAtLeastOne ==
    \A t \in Threads :
      (pc[t] \in ExecutorPCs \cup {"p_clear"} /\ req[t].lastStore # -1)
        => req[t].lastStore >= 1

\* C10: a request whose abort check found shouldAbort set starts no further
\* tile, returns -1 from the executor, and hands the caller's input back
C10_AbortReturnsInput ==
    \A t \in Threads :
      req[t].status = "Aborted" =>
        /\ pc[t] \in {"p_unwind", "p_clear", "idle"}
        /\ pc[t] # "idle" => req[t].inferences = req[t].idx + 1
        /\ pc[t] = "p_clear" => req[t].ret = -1
        /\ pc[t] = "idle" => req[t].result = "input"

\* C10 witness: an aborted request has returned the input bitmap
C10_Witness ==
    \E t \in Threads :
      /\ pc[t] = "idle"
      /\ req[t].status = "Aborted"
      /\ req[t].result = "input"

\* C11: under fair scheduling every call of init*, destroy and process*
\* (and of every other entry point) eventually returns
C11_EveryCallReturns ==
    \A t \in Threads : (pc[t] # "idle") ~> (pc[t] = "idle")

\* the lock protocol by itself: every call returns unless the process has
\* been killed by a memory fault
LockProtocolLive ==
    \A t \in Threads : (pc[t] # "idle") ~> (pc[t] = "idle" \/ fault # "none")

\* C12: in a request that returns Ok the lock is held from its acquisition
\* through the inference of the last tile, and it has been released, with
\* every tile inferred, when the executor waits for the write-back tasks
C12_LockHeldThroughLastTile ==
    \A t \in Threads :
      /\ pc[t] \in LockedPCs => g_lock = t
      /\ pc[t] = "p_unlock" => req[t].inferences = TotalTiles(req[t])
      /\ (pc[t] = "p_drain" \/ (pc[t] = "p_clear" /\ req[t].status = "Ok")) =>
           g_lock # t /\ req[t].inferences = TotalTiles(req[t])

\* C12 witness: a request of two tiles waits for a write-back task after the
\* early release
C12_Witness ==
    \E t \in Threads :
      /\ pc[t] = "p_drain"
      /\ running[t] # {}
      /\ g_lock # t
      /\ TotalTiles(req[t]) >= 2

\* C13: whenever a request runs its tile loop while another request still has
\* unfinished write-back tasks, that other request is in its final drain (and
\* such a state is reachable: request 2 overlaps the tail of request 1)
C13_OverlapOnlyInTail ==
    \A t, u \in Threads :
      (t # u /\ pc[u] \in LoopPCs /\ running[t] # {}) => pc[t] = "p_drain"

\* C13 witness: request 2 holds the lock and runs tile inference while
\* request 1 has a write-back task that has not finished
C13_Witness ==
    \E t, u \in Threads :
      /\ t # u
      /\ req[t].op = "process" /\ req[u].op = "process"
      /\ req[t].id < req[u].id
      /\ pc[u] = "p_infer" /\ g_lock = u
      /\ running[t] # {}

\* C14: the unique_lock of a process* call releases the mutex exactly once:
\* lock.unlock() is executed while owned, the executor never owns the mutex
\* again after it, the failure paths keep it until the scope exit, and a
\* returned call has released it once
C14_ReleasedExactlyOnce ==
    \A t \in Threads :
      req[t].op = "process" =>
        /\ pc[t] = "p_unlock" => g_lock = t /\ req[t].unlocks = 0
        /\ (pc[t] = "p_drain" \/ (pc[t] = "p_clear" /\ req[t].ret = 0)) =>
             g_lock # t /\ req[t].unlocks = 1
        /\ (pc[t] = "p_clear" /\ req[t].ret # 0) =>
             g_lock = t /\ req[t].unlocks = 0
        /\ pc[t] = "idle" => g_lock # t /\ req[t].unlocks = 1

\* C14 witness: a request has returned Ok while another thread owned the mutex
\* at its scope exit
C14_Witness ==
    \E t, u \in Threads :
      /\ t # u
      /\ pc[t] = "idle" /\ req[t].op = "process" /\ req[t].status = "Ok"
      /\ g_lock = u

\* C15: process* with no model loaded returns the input and leaves the model
\* handle, progress, currentId and shouldAbort as they were
C15_NoModelNoEffect ==
    [][\A t \in Threads :
         (pc[t] = "p_lock" /\ g_waifu2x = 0 /\ pc'[t] = "idle") =>
           /\ req'[t].result = "input"
           /\ UNCHANGED << g_waifu2x, g_progress, g_current_id,
                           g_abort_processing >>]_vars

\* the deque as a set of tile indices
InPipeline(t) == { pipeline[t][i] : i \in 1..Len(pipeline[t]) }

\* C16: the deque never holds more than 32 futures, a task leaves it only
\* after it has finished, and it holds the tiles in the order they were
\* pushed: the newest pushed tiles, oldest first
C16_BoundedFifo ==
    \A t \in Threads :
      /\ Len(pipeline[t]) <= PipelineDepth
      /\ running[t] \subseteq InPipeline(t)
      /\ \A i \in 1..Len(pipeline[t]) - 1 :
           pipeline[t][i + 1] = pipeline[t][i] + 1
      /\ (pc[t] = "p_abort" /\ pipeline[t] # << >>) =>
           pipeline[t][Len(pipeline[t])] = req[t].idx

\* C16 witness: the deque holds 32 futures and the executor is blocked on the
\* oldest one, which has not finished
C16_Witness ==
    \E t \in Threads :
      /\ pc[t] = "p_push"
      /\ Len(pipeline[t]) = PipelineDepth
      /\ Head(pipeline[t]) \in running[t]

\* C17: tile i is inferred as the (i+1)-th inference of its request, so tiles
\* are inferred once each in increasing row-major index, and the request
\* owns the lock whenever it is about to infer or has just inferred a tile
C17_RowMajorUnderLock ==
    \A t \in Threads :
      /\ pc[t] = "p_infer" => g_lock = t /\ req[t].inferences = req[t].idx
      /\ pc[t] \in {"p_interim", "p_push", "p_abort"} =>
           g_lock = t /\ req[t].inferences = req[t].idx + 1
      /\ pc[t] = "p_unlock" => req[t].idx + 1 = TotalTiles(req[t])

\* C17 witness: a request is about to infer its second tile
C17_Witness ==
    \E t \in Threads :
      pc[t] = "p_infer" /\ req[t].idx = 1 /\ req[t].inferences = 1

\* two written rectangles share a pixel
Overlap(a, b) ==
    /\ a.cw > 0 /\ b.cw > 0
    /\ a.x < b.x + b.cw /\ b.x < a.x + a.cw
    /\ a.y < b.y + b.rows /\ b.y < a.y + a.rows

\* a written rectangle lies in the target_w x target_h output of request r
Inside(r, a) ==
    a.cw = 0 \/ ( /\ a.x >= 0 /\ a.y >= 0
                  /\ a.x + a.cw <= r.target_w
                  /\ a.y + a.rows <= r.target_h )

\* the rectangles written for distinct tiles are disjoint and all inside
DisjointInside(r) ==
    \A a, b \in r.out :
      Inside(r, a) /\ (a.tile # b.tile => ~Overlap(a, b))

\* number of pixels in a set of rectangles, counted with multiplicity
RECURSIVE Area(_)
Area(S) ==
    IF S = {} THEN 0
    ELSE LET a == CHOOSE a \in S : TRUE
         IN  a.cw * a.rows + Area(S \ {a})

\* every tile of request r was inferred and gave an output of the full size
AllFull(r) ==
    /\ Cardinality(r.captured) = TotalTiles(r)
    /\ \A c \in r.captured :
         c.ot = OutTile("ok", TileW(c.tile, r.xtiles, r.tilesize, r.w),
                        TileH(c.tile, r.xtiles, r.tilesize, r.h),
                        r.scale, r.prepadding)

\* what the tasks of request r write when each reads the scale and the
\* prepadding the request started with: a function of the image size, the
\* tile size, the model and the per-tile outputs only
ExpectedOut(r) ==
    { WriteRect(c.tile, TileX(c.tile, r.xtiles, r.tilesize),
                TileY(c.tile, r.xtiles, r.tilesize),
                TileW(c.tile, r.xtiles, r.tilesize, r.w),
                TileH(c.tile, r.xtiles, r.tilesize, r.h),
                r.target_w, r.target_h, c.ot, r.scale, r.prepadding) :
        c \in r.captured }

\* C18: the rectangles written by the write-back tasks of distinct tiles of
\* one request are pairwise disjoint and lie inside the W*scale x H*scale
\* output
C18_TilesDisjointInside ==
    \A t \in Threads : DisjointInside(req[t])

\* C18 while the model object of the request is not deleted
C18_WhileModelAlive ==
    \A t \in Threads : ThisAlive(t) => DisjointInside(req[t])

\* C19: when a request whose tiles all gave full-size outputs returns Ok,
\* every pixel of the output has been written exactly once: the written
\* rectangles are disjoint, inside, and as many pixels as the output has
C19_EveryPixelOnce ==
    \A t \in Threads :
      (pc[t] = "p_clear" /\ req[t].status = "Ok" /\ AllFull(req[t])) =>
        /\ DisjointInside(req[t])
        /\ Area(req[t].out) = req[t].target_w * req[t].target_h

\* C19 while the model object of the request is not deleted
C19_WhileModelAlive ==
    \A t \in Threads :
      (pc[t] = "p_clear" /\ req[t].status = "Ok" /\ AllFull(req[t])
         /\ ThisAlive(t)) =>
        /\ DisjointInside(req[t])
        /\ Area(req[t].out) = req[t].target_w * req[t].target_h

\* C20: when a request returns Ok its output is the same whatever the order
\* in which its write-back tasks ran: the rectangles written are those fixed
\* by the inputs, and no pixel is written by two tasks
C20_OutputOrderIndependent ==
    \A t \in Threads :
      (pc[t] = "p_clear" /\ req[t].status = "Ok") =>
        req[t].out = ExpectedOut(req[t]) /\ DisjointInside(req[t])

\* C20 while the model object of the request is not deleted
C20_WhileModelAlive ==
    \A t \in Threads :
      (pc[t] = "p_clear" /\ req[t].status = "Ok" /\ ThisAlive(t)) =>
        req[t].out = ExpectedOut(req[t]) /\ DisjointInside(req[t])

\* the destination rectangle of tile k in the output of request r
DestRect(r, k) ==
    [ tile |-> k, x |-> TileX(k, r.xtiles, r.tilesize) * r.scale,
      y |-> TileY(k, r.xtiles, r.tilesize) * r.scale,
      cw |-> TileW(k, r.xtiles, r.tilesize, r.w) * r.scale,
      rows |-> TileH(k, r.xtiles, r.tilesize, r.h) * r.scale, src |-> 0 ]

\* a tile of request t whose inference gave an empty or short-channel output
\* has no write-back task and no pixel of its destination rectangle written
SkippedUntouched(t) ==
    \A k \in req[t].skipped :
      /\ k \notin running[t]
      /\ \A c \in req[t].captured : c.tile # k
      /\ \A a \in req[t].out : ~Overlap(a, DestRect(req[t], k))

\* a request with a skipped tile that was not aborted has run every tile's
\* inference, returns Ok and has stored progress 100
SkipNotFatal(t) ==
    (pc[t] = "p_clear" /\ req[t].skipped # {} /\ req[t].status # "Aborted") =>
      /\ req[t].status = "Ok" /\ req[t].ret = 0
      /\ req[t].inferences = TotalTiles(req[t])
      /\ req[t].lastStore = 100

\* C21: a tile whose inference returns an empty output or fewer than 3
\* channels gets no write-back task and no byte of its destination rectangle
\* is written, the remaining tiles are still processed, and the request
\* (unless aborted at a later tile) returns Ok and publishes progress 100
C21_SkippedTileNotFatal ==
    \A t \in Threads :
      pc[t] \in ExecutorPCs \cup {"p_clear"} =>
        SkippedUntouched(t) /\ SkipNotFatal(t)

\* C21 while the model object of the request is not deleted
C21_WhileModelAlive ==
    \A t \in Threads :
      (pc[t] \in ExecutorPCs \cup {"p_clear"} /\ ThisAlive(t)) =>
        SkippedUntouched(t) /\ SkipNotFatal(t)

\* C22: the alpha byte of a written pixel is the pre-scaled alpha value at
\* that pixel clamped to [0,255], and 255 when the input has no alpha plane
\* (so 255 for an opaque input, 0 for a transparent one)
C22_AlphaByteIsClampedAlpha ==
    \A t \in Threads :
      pc[t] = "c_written" =>
        req[t].pixel[4] = IF req[t].args.has_alpha
                          THEN ClampByte(req[t].args.alpha) ELSE 255

\* C23: after the tile of row-major index i the executor takes the thermal
\* sleep exactly when tileSleepMs > 0 and i is not one of the last 5 tiles
\* (i < totalTiles - 5); with tileSleepMs = 0 it never sleeps
C23_SleepsOutsideLastFive ==
    [][\A t \in Threads :
         (pc[t] = "p_abort" /\ pc'[t] \in {"p_infer", "p_unlock"}) =>
           ( (req'[t].sleeps = req[t].sleeps + 1)
               <=> ( model.tile_sleep_ms > 0
                     /\ req[t].idx < TotalTiles(req[t]) - 5 ) )]_vars

\* the Real-CUGAN variant by noise level
CuganVariant ==
    [ n \in 0..4 |-> << "no-denoise", "denoise1x", "denoise2x", "denoise3x",
                        "conservative" >>[n + 1] ]

\* C24: nativeInitRealCugan with noise 0..4 and scale 2..4 loads
\* up{scale}x-{variant}.param/.bin, where the variant is the one of the noise
\* level, promoted to denoise3x when scale > 2 and noise is 1 or 2, and sets
\* prepadding 18 at scale 2, 14 at scale 3 and 19 at scale 4
C24_CuganResolution ==
    [][\A t \in Threads :
         ( pc[t] = "i_body" /\ pc'[t] = "idle"
           /\ req[t].args.family = "RealCugan" ) =>
           LET a == req[t].args
               variant == IF a.scale > 2 /\ a.noise \in {1, 2}
                          THEN "denoise3x" ELSE CuganVariant[a.noise]
           IN  /\ model'.param_file = << "up", a.scale, "x-", variant, ".param" >>
               /\ model'.bin_file = << "up", a.scale, "x-", variant, ".bin" >>
               /\ model'.prepadding = << 18, 14, 19 >>[a.scale - 1]]_vars

\* C24 witness: a session initialised at scale 3 with noise 1 holds the
\* promoted variant and prepadding 14
C24_Witness ==
    /\ g_waifu2x # 0 /\ modelAlive /\ g_lock = 0
    /\ model.noise = 1 /\ model.scale = 3 /\ model.prepadding = 14
    /\ model.param_file = << "up", 3, "x-", "denoise3x", ".param" >>

\* C25: nativeInit loads scale2.0x_model.* when noise is -1 (also at scale
\* 1), otherwise noise{n}_model.* when scale is 1, otherwise
\* noise{n}_scale2.0x_model.*, and the session's prepadding is 18 in all
\* three cases
C25_CunetResolution ==
    [][\A t \in Threads :
         ( pc[t] = "i_body" /\ pc'[t] = "idle"
           /\ req[t].args.family = "Cunet" ) =>
           LET a == req[t].args
               file == IF a.noise = -1 THEN << "scale2.0x_model" >>
                       ELSE IF a.scale = 1
                            THEN << "noise", a.noise, "_model" >>
                            ELSE << "noise", a.noise, "_scale2.0x_model" >>
           IN  /\ model'.param_file = file \o << ".param" >>
               /\ model'.bin_file = file \o << ".bin" >>
               /\ model'.prepadding = 18]_vars

\* C25 witness: a session initialised by nativeInit with noise -1 at scale 1
\* holds the scale-only model and prepadding 18
C25_Witness ==
    /\ g_waifu2x # 0 /\ modelAlive /\ g_lock = 0
    /\ model.noise = -1 /\ model.scale = 1 /\ model.prepadding = 18
    /\ model.param_file = << "scale2.0x_model", ".param" >>

\* C26: the value nativeGetProgress returns has the id it loaded in its high
\* 32 bits and the progress it loaded in its low 32 bits, for every int32 id
\* (negative ones included) and every progress of 0..100
C26_PackedProgressDecodes ==
    \A t \in Threads :
      (pc[t] = "idle" /\ req[t].op = "getProgress") =>
        req[t].packed = [hi |-> req[t].id, lo |-> req[t].progress]

\* C26 witness: a call returned the packed value of a negative id and a
\* progress above zero
C26_Witness ==
    \E t \in Threads :
      /\ pc[t] = "idle" /\ req[t].op = "getProgress"
      /\ req[t].id = -2 /\ req[t].progress = 57
      /\ req[t].packed.hi < 0

\* the number of pixels of the input of request t with |R-G| > 5 or
\* |R-B| > 5, and the detection pass of the request is over
Colourful(t) ==
    LET far(p) == (p.r - p.g > 5 \/ p.g - p.r > 5
                   \/ p.r - p.b > 5 \/ p.b - p.r > 5)
        runs == req[t].args.runs
    IN  (IF far(runs[1].px) THEN runs[1].n ELSE 0)
        + (IF far(runs[2].px) THEN runs[2].n ELSE 0)
Detected(t) == pc[t] \in {"c_write", "c_written"}

\* C27: a request is flagged grayscale if and only if its number of colourful
\* pixels is at most floor(W*H / 200) and disableGrayscaleCheck is false
C27_GrayscaleFlag ==
    \A t \in Threads :
      Detected(t) =>
        ( req[t].is_grayscale
            <=> ( Colourful(t) <= (req[t].w * req[t].h) \div 200
                  /\ ~model.disable_grayscale_check ) )

\* C27 witness: a 20 x 20 image with exactly 400 / 200 = 2 colourful pixels
\* is flagged grayscale
C27_Witness ==
    \E t \in Threads :
      /\ Detected(t) /\ req[t].is_grayscale
      /\ req[t].w * req[t].h = 400 /\ req[t].color_pixel_count = 2

\* C28: if every input pixel has |R-G| <= 5 and |R-B| <= 5 and
\* disableGrayscaleCheck is false, a pixel written by the request has
\* R = G = B
C28_GrayInGrayOut ==
    \A t \in Threads :
      ( pc[t] = "c_written" /\ Colourful(t) = 0
        /\ ~model.disable_grayscale_check ) =>
        req[t].pixel[1] = req[t].pixel[2] /\ req[t].pixel[2] = req[t].pixel[3]

\* C28 witness: a tile value with three different channels is written as one
\* gray level for an input without colourful pixels
C28_Witness ==
    \E t \in Threads :
      /\ pc[t] = "c_written" /\ Colourful(t) = 0
      /\ ~model.disable_grayscale_check
      /\ req[t].args.tile.g = 200 * Milli /\ req[t].args.tile.b = 90 * Milli
      /\ req[t].pixel[1] = 100 /\ req[t].pixel[2] = 100

\* the product of the horizontal (x = TRUE) or vertical scales of a pass list
RECURSIVE ScaleProduct(_, _)
ScaleProduct(passes, x) ==
    IF passes = << >> THEN 1
    ELSE (IF x THEN Head(passes).scale_x ELSE Head(passes).scale_y)
         * ScaleProduct(Tail(passes), x)

\* C29: the output size Anime4K::process reports is the input size times the
\* product of the scaleX (resp. scaleY) of all loaded passes, for every pass
\* list with scales 1.0 and 2.0
C29_ChainOutputSize ==
    \A t \in Threads :
      (pc[t] = "k_done" /\ req[t].ret = 0) =>
        /\ req[t].out_w = req[t].w * ScaleProduct(req[t].passes, TRUE)
        /\ req[t].out_h = req[t].h * ScaleProduct(req[t].passes, FALSE)

\* C29 witness: 32 x 32 through two 2x passes is reported as 128 x 128
C29_Witness ==
    \E t \in Threads :
      /\ pc[t] = "k_done" /\ req[t].ret = 0
      /\ req[t].w = 32 /\ req[t].h = 32
      /\ req[t].passes = << [scale_x |-> 2, scale_y |-> 2],
                            [scale_x |-> 2, scale_y |-> 2] >>
      /\ req[t].out_w = 128 /\ req[t].out_h = 128

\* C30: in every tile iteration, also one whose inference result is skipped
\* as empty or short of channels, shouldAbort is checked before the next
\* tile's inference begins: a request moves on to the next tile only from its
\* abort check
C30_AbortCheckedEveryIteration ==
    [][\A t \in Threads :
         ( pc'[t] = "p_infer" /\ req[t].op = "process"
           /\ pc[t] \in LoopPCs /\ req'[t].idx = req[t].idx + 1 ) =>
           pc[t] = "p_abort"]_vars

\* the out_tile captured by the write-back task that wrote rectangle a of
\* request r
SourceOf(r, a) == (CHOOSE c \in r.captured : c.tile = a.tile).ot

\* the size of the padded tile of rectangle a scaled by the scale and the
\* prepadding its task read
PaddedSize(r, a) ==
    [ w |-> (TileW(a.tile, r.xtiles, r.tilesize, r.w) + 2 * a.prepadding) * a.scale,
      h |-> (TileH(a.tile, r.xtiles, r.tilesize, r.h) + 2 * a.prepadding) * a.scale ]

\* C31: a write-back task reads its tile output from offset p*scale in both
\* axes when the tile output is at least (w+2p)*scale wide and (h+2p)*scale
\* high and from offset 0 otherwise, and every row and column it reads lies
\* inside the tile output
C31_SourceReadsInside ==
    \A t \in Threads : \A a \in req[t].out :
      LET ot == SourceOf(req[t], a)
          full == PaddedSize(req[t], a)
      IN  /\ a.src = IF ot.w >= full.w /\ ot.h >= full.h
                     THEN a.prepadding * a.scale ELSE 0
          /\ a.cw > 0 =>
                /\ a.src >= 0
                /\ a.src + a.cw <= ot.w
                /\ a.src + a.rows <= ot.h

\* one request has a rectangle read from offset p*scale and a rectangle read
\* from offset 0 whose copy width was cut to the width of a smaller tile
\* output
C31_Witness ==
    \E t \in Threads : \E a, b \in req[t].out :
      /\ a.src > 0 /\ a.cw > 0
      /\ b.src = 0 /\ b.cw > 0
      /\ b.cw = SourceOf(req[t], b).w
      /\ b.cw < TileW(b.tile, req[t].xtiles, req[t].tilesize, req[t].w) * b.scale

\* C32: a process request is Aborted only if some init* set
\* g_abort_processing while that request held the session lock: a request on
\* its way out with status Aborted was at a lock-holding position when an
\* init* raised the flag
C32_AbortedOnlyWhileHolding ==
    \A t \in Threads :
      ( req[t].op = "process" /\ pc[t] = "p_unwind"
        /\ req[t].status = "Aborted" ) =>
        req[t].signalled \in LockedPCs

\* C33: whenever some init* call has set g_abort_processing and has not yet
\* acquired the session lock, g_abort_processing is true
C33_AbortHeldWhileInitWaits ==
    ( \E t \in Threads : req[t].op = "init" /\ pc[t] = "i_lock" ) =>
      g_abort_processing

\* C34: after an init* call that returns false the session holds no model,
\* and a process request that takes the lock on a session whose last init*
\* failed returns the caller's input at once as in the not-initialized case
C34_FailedInitLeavesNoModel ==
    [][\A t \in Threads :
         /\ ( req[t].op = "init" /\ pc[t] = "i_body" /\ pc'[t] = "idle"
               /\ req'[t].result = "false" ) => g_waifu2x' = 0
         /\ ( req[t].op = "process" /\ pc[t] = "p_lock" /\ pc'[t] # "p_lock"
               /\ g_waifu2x # 0 /\ modelAlive /\ model.net # "ok" ) =>
               /\ pc'[t] = "idle"
               /\ req'[t].result = "input"
               /\ req'[t].status = "NotInitialized"]_vars

\* C35: for every loaded pass list and every bitmap size, the size
\* get_output_size gives for the result bitmap equals the size Anime4K::process
\* renders and reads back into it
C35_AllocatedSizeIsRenderedSize ==
    \A t \in Threads :
      (pc[t] = "k_done" /\ req[t].ret = 0) =>
        /\ req[t].outBitmap.w = req[t].out_w
        /\ req[t].outBitmap.h = req[t].out_h

\* C35 witness: 33 x 17 through a 2x pass, a pass that doubles the width
\* only and a pass that keeps the size is allocated and rendered as 132 x 34
C35_Witness ==
    \E t \in Threads :
      /\ pc[t] = "k_done" /\ req[t].ret = 0
      /\ req[t].w = 33 /\ req[t].h = 17
      /\ req[t].passes = << [scale_x |-> 2, scale_y |-> 2],
                            [scale_x |-> 2, scale_y |-> 1],
                            [scale_x |-> 1, scale_y |-> 1] >>
      /\ req[t].outBitmap = [w |-> 132, h |-> 34]
      /\ req[t].out_w = 132 /\ req[t].out_h = 34

=============================================================================
